---- MODULE Spec2Model ----
(***************************************************************************)
(* The Proof-of-Personhood party service (src/service/service.go, first    *)
(* package of the file, lines 1-1006): one Service per conode, its link    *)
(* state (Pin, Public), its maps Finals / mergeMetas / syncMetas, the      *)
(* client handlers (PinRequest, StoreConfig, FinalizeRequest, FetchFinal), *)
(* the conode-to-conode handlers (CheckConfig, CheckConfigReply), the      *)
(* collective-signing verifier and the propagation of a signed statement.  *)
(*                                                                         *)
(* Go pointers are modelled by object identifiers: Finals, mergeMetas and  *)
(* syncMetas map a party hash to an identifier, and fsHeap, mmHeap and     *)
(* smHeap map an identifier to the object, so that two keys can name the   *)
(* same FinalStatement, as they do in the code.                            *)
(***************************************************************************)
EXTENDS Integers, Sequences, FiniteSets, TLC

\* ------------------------------------------------------------------------
\* Bounds of the model
\* ------------------------------------------------------------------------
MaxPinRequest == 4
MaxStoreConfig == 3
MaxFinalizeRequest == 2
MaxRestart == 1
MaxFetchFinal == 1
MaxMergeRequest == 2

\* ------------------------------------------------------------------------
\* Universes the inputs are drawn from
\* ------------------------------------------------------------------------
Servers == {"s1", "s2", "s3"}
NoKey == ""
OrgKeys == {"o1", "o2"}
PinValues == {"111111", "222222"}
ReqPins == PinValues \cup {"", "abcdefg"}

\* ------------------------------------------------------------------------
\* Program constants
\* ------------------------------------------------------------------------
ErrorWrongPIN == 4100
ErrorInternal == 4101
ErrorOtherFinals == 4102
ErrorMerge == 4103
ErrorTimeout == 4104

PopStatusWrongHash == 0
PopStatusNoAttendees == 1
PopStatusMergeError == 2
PopStatusMergeNonFinalized == 3
PopStatusOK == 4

SignatureSize == 64

\* ------------------------------------------------------------------------
\* Data: rosters, party descriptions, final statements, signatures
\* ------------------------------------------------------------------------
Range(f) == {f[i] : i \in DOMAIN f}

\* *onet.Roster: nil, or a list of server identities.
NilRoster == [nil |-> TRUE, List |-> <<>>]
NewRoster(list) == [nil |-> FALSE, List |-> list]

\* Roster.Aggregate: the sum of the members' public keys, which does not
\* depend on the order of the list.
Aggregate(r) == Range(r.List)

ShortDesc(loc, list) == [Location |-> loc, Roster |-> NewRoster(list)]

PopDesc(name, loc, roster, parties) ==
    [Name |-> name, DateTime |-> "2017-08-08 15:00", Location |-> loc,
     Roster |-> roster, Parties |-> parties]

\* PopDesc.Hash: the digest of name, date, location, aggregate key and, for
\* each sibling party in order, its location and aggregate key.  The digest
\* is modelled by the tuple of what is written into it.
DescHash(p) ==
    <<p.Name, p.DateTime, p.Location, Aggregate(p.Roster),
      [i \in DOMAIN p.Parties |->
          <<p.Parties[i].Location, Aggregate(p.Parties[i].Roster)>>]>>

\* FinalStatement.Hash: the digest of the party hash and the attendees'
\* keys in the order of the list.
FinalHash(fs) == <<DescHash(fs.Desc), fs.Attendees>>

\* FinalizeRequest.Hash: the digest of DescID and the attendees.
RequestHash(descID, atts) == <<descID, atts>>

\* A collective signature: its length in bytes, the aggregate key and the
\* message it was made for, and the root of the signing round that made it
\* (two rounds over one message give different bytes).
EmptySig == [len |-> 0, agg |-> {}, msg |-> <<>>, by |-> ""]
CoSign(agg, msg, root) == [len |-> SignatureSize, agg |-> agg, msg |-> msg, by |-> root]

\* FinalStatement.Verify() == nil: eddsa.Verify under the roster's aggregate
\* key over the statement's current hash.
Verify(fs) ==
    /\ fs.Signature.len = SignatureSize
    /\ fs.Signature.agg = Aggregate(fs.Desc.Roster)
    /\ fs.Signature.msg = FinalHash(fs)

\* An organizer's Schnorr signature: the key that made it and the message.
SignSchnorr(key, msg) == [key |-> key, msg |-> msg]
VerifySchnorr(pub, msg, sig) == sig.key = pub /\ sig.msg = msg

NewFinalStatement_KeepsAttendees(desc) ==
    [Desc |-> desc, Attendees |-> <<"k1">>, Signature |-> EmptySig, Merged |-> FALSE]

NewFinalStatement(desc) ==
    [Desc |-> desc, Attendees |-> <<>>, Signature |-> EmptySig, Merged |-> FALSE]

\* ------------------------------------------------------------------------
\* The party descriptions the organizers submit
\* ------------------------------------------------------------------------
RosterX == <<"s1", "s2", "s3">>
RosterA == <<"s1", "s2">>
RosterB == <<"s2", "s3">>
SiblingsAB == <<ShortDesc("cityA", RosterA), ShortDesc("cityB", RosterB)>>

PdX == PopDesc("partyX", "cityX", NewRoster(RosterX), <<>>)
PdA == PopDesc("partyAB", "cityA", NewRoster(RosterA), SiblingsAB)
PdNil == PopDesc("partyX", "cityX", NilRoster, <<>>)

\* The attendee lists the organizers send with a FinalizeRequest
AttLists == {<<"k1", "k2">>, <<"k2", "k1">>, <<"k1">>}

\* ------------------------------------------------------------------------
\* State
\* ------------------------------------------------------------------------
VARIABLES
    Pin,          \* saveData.Pin of each server
    Public,       \* saveData.Public of each server (NoKey: nil)
    Finals,       \* saveData.Finals: party hash -> FinalStatement identifier
    mergeMetas,   \* saveData.mergeMetas: party hash -> mergeMeta identifier
    syncMetas,    \* saveData.syncMetas: party hash -> syncMeta identifier
    fsHeap,       \* the FinalStatement objects of each server
    mmHeap,       \* the mergeMeta objects of each server
    smHeap,       \* the syncMeta objects of each server
    storage,      \* what the last save() of each server wrote
    alive,        \* the conode process is running
    queue,        \* SendRaw messages in flight, per (sender, receiver)
    fin,          \* the FinalizeRequest handler running at each server
    bft,          \* the collective-signing round rooted at each server
    prop,         \* propagated final statements not yet delivered
    ret,          \* the last reply a server gave to a client
    calls,        \* how many requests of each kind were issued so far
    mrg           \* the MergeRequest handlers, in the order of the requests

vars == <<Pin, Public, Finals, mergeMetas, syncMetas, fsHeap, mmHeap, smHeap,
          storage, alive, queue, fin, bft, prop, ret, calls, mrg>>

serverData == <<Pin, Public, Finals, mergeMetas, syncMetas, fsHeap, mmHeap,
                smHeap, storage>>

\* ------------------------------------------------------------------------
\* Go maps and pointers
\* ------------------------------------------------------------------------
EmptyMap == <<>>
Put(m, k, v) == [x \in DOMAIN m \cup {k} |-> IF x = k THEN v ELSE m[x]]
Has(m, k) == k \in DOMAIN m
Restrict(m, keys) == [x \in DOMAIN m \cap keys |-> m[x]]

\* The least identifier not in use.
FreshId(used) == CHOOSE n \in 1..(Cardinality(used) + 1) :
                    n \notin used /\ \A m \in 1..(n - 1) : m \in used

RECURSIVE SeqOf(_)
SeqOf(S) == IF S = {} THEN <<>>
            ELSE LET x == CHOOSE y \in S : TRUE IN <<x>> \o SeqOf(S \ {x})

IndexOf(seq, x) == CHOOSE i \in DOMAIN seq : seq[i] = x

\* The FinalStatement a server holds under a party hash.
FinalAt(s, hash) == fsHeap[s][Finals[s][hash]]

\* The identifiers still referenced: by the maps, by a mergeMeta's
\* statementsMap, and by the local variables of a running handler.
FsRefs(finals, mmh, task) ==
    Range(finals) \cup UNION {Range(mmh[m].statementsMap) : m \in DOMAIN mmh}
                  \cup (IF task.final = 0 THEN {} ELSE {task.final})
SmRefs(syncs, task) == Range(syncs) \cup (IF task.sync = 0 THEN {} ELSE {task.sync})

\* ------------------------------------------------------------------------
\* Handlers' replies and local state
\* ------------------------------------------------------------------------
\* What a client handler gave back: a reply (ok), a ClientError with its code
\* (error), or nothing because the handler panicked (panic).  ID is the hash
\* of a StoreConfigReply, Final the statement of a FinalizeResponse.
Reply(s, op, outcome, code, id, final) ==
    [at |-> s, op |-> op, outcome |-> outcome, code |-> code, ID |-> id,
     Final |-> final]
NoReply == Reply("", "", "none", 0, <<>>, <<>>)
ReplyError(s, op, code) == Reply(s, op, "error", code, <<>>, <<>>)
ReplyPanic(s, op) == Reply(s, op, "panic", 0, <<>>, <<>>)
ReplyOk(s, op, id, final) == Reply(s, op, "ok", 0, id, final)

\* The local variables of a FinalizeRequest handler: where it stands (idle;
\* cc: waiting on ccChannel; sign: waiting for the signature; prop: waiting
\* for the propagation), the request, the CheckConfig it sends, its pointer
\* final, the roster list it ranges over, the index of the conode it waits
\* for and the syncMeta whose channel it reads.
IdleTask == [pc |-> "idle", DescID |-> <<>>, Attendees |-> <<>>, PopHash |-> <<>>,
             final |-> 0, roster |-> <<>>, idx |-> 0, sync |-> 0]
IdleRound == [active |-> FALSE, Msg |-> <<>>, Data |-> <<>>, tree |-> <<>>,
              votes |-> <<>>]
\* The local variables of a MergeRequest handler: where it stands (idle;
\* enter: Merge found distrib unset and has not set it yet; mc: waiting on
\* mcChannel; wg: waiting on mcGroup; sign, prop: as above), the conode it
\* runs at, its pointers final, meta and syncData, the sibling party and the
\* conode of it the handler waits for, the syncMeta whose mcGroup it waits
\* on, and its collective-signing round.
IdleMerge == [pc |-> "idle", at |-> "", final |-> 0, meta |-> 0, sync |-> 0,
              party |-> 0, si |-> 0, wg |-> 0, round |-> IdleRound]
MergeSlots == 1..MaxMergeRequest
NoCalls == [pin |-> 0, store |-> 0, final |-> 0, restart |-> 0, fetch |-> 0,
            merge |-> 0]
\* The MergeRequest handlers that end with the process of conode m.
StopMerges(m) == [k \in MergeSlots |-> IF mrg[k].at = m THEN IdleMerge ELSE mrg[k]]
NoStorage == [avail |-> FALSE, Pin |-> "", Public |-> NoKey, Finals |-> EmptyMap]

\* newSyncMeta: two channels of capacity one and a WaitGroup.
NewSyncMeta == [ccChannel |-> <<>>, mcChannel |-> <<>>, mcGroup |-> 0]

\* ------------------------------------------------------------------------
\* Initial state: newService on a conode without stored data
\* ------------------------------------------------------------------------
Init ==
    /\ Pin = [s \in Servers |-> ""]
    /\ Public = [s \in Servers |-> NoKey]
    /\ Finals = [s \in Servers |-> EmptyMap]
    /\ mergeMetas = [s \in Servers |-> EmptyMap]
    /\ syncMetas = [s \in Servers |-> EmptyMap]
    /\ fsHeap = [s \in Servers |-> EmptyMap]
    /\ mmHeap = [s \in Servers |-> EmptyMap]
    /\ smHeap = [s \in Servers |-> EmptyMap]
    /\ storage = [s \in Servers |-> NoStorage]
    /\ alive = [s \in Servers |-> TRUE]
    /\ queue = [p \in Servers \X Servers |-> <<>>]
    /\ fin = [s \in Servers |-> IdleTask]
    /\ bft = [s \in Servers |-> IdleRound]
    /\ prop = {}
    /\ ret = NoReply
    /\ calls = NoCalls
    /\ mrg = [k \in MergeSlots |-> IdleMerge]

Saved_NoKey(pin, pub, finals, heap) ==
    [avail |-> TRUE, Pin |-> pin, Public |-> NoKey,
     Finals |-> [k \in DOMAIN finals |-> heap[finals[k]]]]

\* ------------------------------------------------------------------------
\* save / tryLoad
\* ------------------------------------------------------------------------
\* Service.save: Save("storage", s.data) writes the exported fields of
\* saveData: Pin, Public and Finals (each statement by value).
Saved(pin, pub, finals, heap) ==
    [avail |-> TRUE, Pin |-> pin, Public |-> pub,
     Finals |-> [k \in DOMAIN finals |-> heap[finals[k]]]]

\* ------------------------------------------------------------------------
\* PinRequest
\* ------------------------------------------------------------------------
\* The comparison of line 132.
PinMatches_Always(held, pin) == TRUE

PinMatches(held, pin) == pin = held

\* The PINs line 128 can write: six decimal digits.
RandomPin_Blank == {""}

RandomPin == PinValues

PinRequest(s, pin, pub) ==
    /\ alive[s]
    /\ calls.pin < MaxPinRequest
    /\ calls' = [calls EXCEPT !.pin = @ + 1]
    /\ IF pin = ""
       THEN \* a fresh random PIN is written whenever the request has none
            /\ \E p \in RandomPin : Pin' = [Pin EXCEPT ![s] = p]
            /\ ret' = ReplyError(s, "PinRequest", ErrorWrongPIN)
            /\ UNCHANGED <<Public, storage>>
       ELSE IF ~PinMatches(Pin[s], pin)
       THEN /\ ret' = ReplyError(s, "PinRequest", ErrorWrongPIN)
            /\ UNCHANGED <<Pin, Public, storage>>
       ELSE /\ Public' = [Public EXCEPT ![s] = pub]
            /\ storage' = [storage EXCEPT ![s] =
                              Saved(Pin[s], pub, Finals[s], fsHeap[s])]
            /\ ret' = ReplyOk(s, "PinRequest", <<>>, <<>>)
            /\ UNCHANGED Pin
    /\ UNCHANGED <<Finals, mergeMetas, syncMetas, fsHeap, mmHeap, smHeap,
                   alive, queue, fin, bft, prop, mrg>>

\* ------------------------------------------------------------------------
\* StoreConfig
\* ------------------------------------------------------------------------
\* The party descriptions and signatures a StoreConfig request can carry.
StoreDescs == {PdX, PdA, PdNil}
StoreSigs(desc) ==
    {SignSchnorr(k, DescHash(desc)) : k \in OrgKeys}
        \cup {SignSchnorr("o1", DescHash(PdA)), SignSchnorr("o1", DescHash(PdX))}

\* newmergeMeta, with the party's own statement already in the map.
NewMergeMeta(hash, fid) ==
    [statementsMap |-> Put(EmptyMap, hash, fid), distrib |-> FALSE]

StoreConfig(s, desc, sig) ==
    /\ alive[s]
    /\ calls.store < MaxStoreConfig
    /\ calls' = [calls EXCEPT !.store = @ + 1]
    /\ IF desc.Roster.nil
       THEN \* line 143 evaluates req.Desc.Hash() for the log line, which
            \* dereferences the nil roster: the handler panics before the
            \* check of line 144 is reached
            /\ ret' = ReplyPanic(s, "StoreConfig")
            /\ UNCHANGED serverData
       ELSE IF Public[s] = NoKey \/ ~VerifySchnorr(Public[s], DescHash(desc), sig)
       THEN /\ ret' = ReplyError(s, "StoreConfig", ErrorInternal)
            /\ UNCHANGED serverData
       ELSE LET hash == DescHash(desc)
                hasParties == Len(desc.Parties) > 0
                finalsOld == Restrict(Finals[s], DOMAIN Finals[s] \ {hash})
                metasOld == IF hasParties
                            THEN Restrict(mergeMetas[s], DOMAIN mergeMetas[s] \ {hash})
                            ELSE mergeMetas[s]
                syncsOld == Restrict(syncMetas[s], DOMAIN syncMetas[s] \ {hash})
                mmKept == Restrict(mmHeap[s], Range(metasOld))
                fsKept == Restrict(fsHeap[s], FsRefs(finalsOld, mmKept, fin[s]))
                smKept == Restrict(smHeap[s], SmRefs(syncsOld, fin[s]))
                fid == FreshId(DOMAIN fsKept)
                mid == FreshId(DOMAIN mmKept)
                sid == FreshId(DOMAIN smKept)
                finalsNew == Put(finalsOld, hash, fid)
                fsNew == Put(fsKept, fid, NewFinalStatement(desc))
            IN  /\ Finals' = [Finals EXCEPT ![s] = finalsNew]
                /\ fsHeap' = [fsHeap EXCEPT ![s] = fsNew]
                /\ syncMetas' = [syncMetas EXCEPT ![s] = Put(syncsOld, hash, sid)]
                /\ smHeap' = [smHeap EXCEPT ![s] = Put(smKept, sid, NewSyncMeta)]
                /\ mergeMetas' = [mergeMetas EXCEPT ![s] =
                       IF hasParties THEN Put(metasOld, hash, mid) ELSE metasOld]
                /\ mmHeap' = [mmHeap EXCEPT ![s] =
                       IF hasParties THEN Put(mmKept, mid, NewMergeMeta(hash, fid))
                       ELSE mmKept]
                /\ storage' = [storage EXCEPT ![s] =
                       Saved(Pin[s], Public[s], finalsNew, fsNew)]
                /\ ret' = ReplyOk(s, "StoreConfig", hash, <<>>)
                /\ UNCHANGED <<Pin, Public>>
    /\ UNCHANGED <<alive, queue, fin, bft, prop, mrg>>

\* ------------------------------------------------------------------------
\* Restart of a conode: newService, tryLoad
\* ------------------------------------------------------------------------
\* The process stops (its handlers and its connections with it) and starts
\* again: s.data is what the last save wrote, or an empty saveData, and the
\* maps that are nil are made.
Restart(s) ==
    /\ calls.restart < MaxRestart
    /\ calls' = [calls EXCEPT !.restart = @ + 1]
    /\ LET st == storage[s]
           keys == SeqOf(DOMAIN st.Finals)
       IN  /\ Pin' = [Pin EXCEPT ![s] = st.Pin]
           /\ Public' = [Public EXCEPT ![s] = st.Public]
           /\ Finals' = [Finals EXCEPT ![s] =
                  [k \in DOMAIN st.Finals |-> IndexOf(keys, k)]]
           /\ fsHeap' = [fsHeap EXCEPT ![s] =
                  [i \in DOMAIN keys |-> st.Finals[keys[i]]]]
    /\ mergeMetas' = [mergeMetas EXCEPT ![s] = EmptyMap]
    /\ mmHeap' = [mmHeap EXCEPT ![s] = EmptyMap]
    /\ syncMetas' = [syncMetas EXCEPT ![s] = EmptyMap]
    /\ smHeap' = [smHeap EXCEPT ![s] = EmptyMap]
    /\ alive' = [alive EXCEPT ![s] = TRUE]
    /\ queue' = [p \in Servers \X Servers |->
                    IF p[1] = s \/ p[2] = s THEN <<>> ELSE queue[p]]
    /\ fin' = [fin EXCEPT ![s] = IdleTask]
    /\ bft' = [bft EXCEPT ![s] = IdleRound]
    /\ prop' = {m \in prop : m.to # s}
    /\ mrg' = StopMerges(s)
    /\ UNCHANGED <<storage, ret>>

intersectAttendees_FirstOrder(atts1, atts2) ==
    SelectSeq(atts1, LAMBDA p : p \in Range(atts2))

\* ------------------------------------------------------------------------
\* Attendee lists and the TOML form of a final statement
\* ------------------------------------------------------------------------
\* intersectAttendees: the keys of atts2, in the order of atts2, that
\* occur in atts1.
intersectAttendees(atts1, atts2) == SelectSeq(atts2, LAMBDA p : p \in Range(atts1))

\* FinalStatement.ToToml: the sibling parties are written only if there is
\* more than one.
ToToml(fs) ==
    [Desc |-> [Name |-> fs.Desc.Name, DateTime |-> fs.Desc.DateTime,
               Location |-> fs.Desc.Location, Roster |-> fs.Desc.Roster.List,
               Parties |-> IF Len(fs.Desc.Parties) > 1
                           THEN [i \in DOMAIN fs.Desc.Parties |->
                                   [Location |-> fs.Desc.Parties[i].Location,
                                    Roster |-> fs.Desc.Parties[i].Roster.List]]
                           ELSE <<>>],
     Attendees |-> fs.Attendees, Signature |-> fs.Signature, Merged |-> fs.Merged]

NewFinalStatementFromToml(b) ==
    [Desc |-> [Name |-> b.Desc.Name, DateTime |-> b.Desc.DateTime,
               Location |-> b.Desc.Location, Roster |-> NewRoster(b.Desc.Roster),
               Parties |-> [i \in DOMAIN b.Desc.Parties |->
                              ShortDesc(b.Desc.Parties[i].Location,
                                        b.Desc.Parties[i].Roster)]],
     Attendees |-> b.Attendees, Signature |-> b.Signature, Merged |-> b.Merged]

\* ------------------------------------------------------------------------
\* Messages between conodes
\* ------------------------------------------------------------------------
CheckConfigMsg(hash, atts) ==
    [type |-> "CheckConfig", PopStatus |-> 0, PopHash |-> hash, Attendees |-> atts]
CheckConfigReplyMsg(status, hash, atts) ==
    [type |-> "CheckConfigReply", PopStatus |-> status, PopHash |-> hash,
     Attendees |-> atts]

\* SendRaw to each conode of a list, in order.
RECURSIVE SendAll(_, _, _, _)
SendAll(q, from, tos, msg) ==
    IF tos = <<>> THEN q
    ELSE SendAll([q EXCEPT ![<<from, Head(tos)>>] = Append(@, msg)],
                 from, Tail(tos), msg)

\* What a channel of capacity one holds: nothing, or one reply (nil or not).
NilReply == [nil |-> TRUE, PopStatus |-> 0, PopHash |-> <<>>, Attendees |-> <<>>]
SomeReply(m) == [nil |-> FALSE, PopStatus |-> m.PopStatus, PopHash |-> m.PopHash,
                 Attendees |-> m.Attendees]

\* ------------------------------------------------------------------------
\* FinalizeRequest
\* ------------------------------------------------------------------------
PartyDescs == {PdX, PdA}
FinalizeIDs == {DescHash(d) : d \in PartyDescs}
FinalizeSigs(descID, atts) == {SignSchnorr(k, RequestHash(descID, atts)) : k \in OrgKeys}

\* The loop of lines 200-215 from the j-th conode of the roster on: the
\* conodes a CheckConfig is sent to before the handler blocks or leaves the
\* loop, and how it stops: it waits on ccChannel for the reply of conode
\* idx, the roster is exhausted, or SendRaw fails.  Without a syncMeta
\* for the party the handler does not wait for any reply.
RECURSIVE CcLoop(_, _, _, _)
CcLoop(s, roster, j, hasSync) ==
    IF j > Len(roster) THEN [to |-> <<>>, stop |-> "end", idx |-> j]
    ELSE IF roster[j] = s THEN CcLoop(s, roster, j + 1, hasSync)
    ELSE IF ~alive[roster[j]] THEN [to |-> <<>>, stop |-> "error", idx |-> j]
    ELSE IF hasSync THEN [to |-> <<roster[j]>>, stop |-> "wait", idx |-> j]
    ELSE LET r == CcLoop(s, roster, j + 1, hasSync)
         IN  [r EXCEPT !.to = <<roster[j]>> \o @]

\* The handler returns: its local variables go, and with them the last
\* references to objects no map names any more.
EndTask(s, heap, sm) ==
    /\ fin' = [fin EXCEPT ![s] = IdleTask]
    /\ fsHeap' = [fsHeap EXCEPT ![s] =
                     Restrict(heap, FsRefs(Finals[s], mmHeap[s], IdleTask))]
    /\ smHeap' = [smHeap EXCEPT ![s] =
                     Restrict(sm, SmRefs(syncMetas[s], IdleTask))]

\* signAndPropagateFinal up to the wait for the signature (lines 258-297).
SignStart(s, task, heap, sm) ==
    LET final == heap[task.final]
        tree == final.Desc.Roster.List
    IN  IF s \notin Range(tree)
        THEN \* GenerateNaryTreeWithRoot gives nil: "Root does not exist"
             /\ ret' = ReplyError(s, "FinalizeRequest", ErrorInternal)
             /\ EndTask(s, heap, sm)
             /\ UNCHANGED bft
        ELSE /\ bft' = [bft EXCEPT ![s] =
                    [active |-> TRUE, Msg |-> FinalHash(final),
                     Data |-> <<ToToml(final)>>, tree |-> tree,
                     votes |-> [m \in Range(tree) |-> "none"]]]
             /\ fsHeap' = [fsHeap EXCEPT ![s] =
                    [heap EXCEPT ![task.final].Signature = EmptySig]]
             /\ fin' = [fin EXCEPT ![s] = [task EXCEPT !.pc = "sign", !.sync = 0]]
             /\ smHeap' = [smHeap EXCEPT ![s] =
                    Restrict(sm, SmRefs(syncMetas[s], IdleTask))]
             /\ UNCHANGED ret

\* The loop of FinalizeRequest from conode j on, then what follows it.
FinalizeLoop(s, task, j, heap, sm) ==
    LET hasSync == Has(syncMetas[s], task.DescID)
        r == CcLoop(s, task.roster, j, hasSync)
    IN  /\ queue' = SendAll(queue, s, r.to,
                            CheckConfigMsg(task.PopHash, task.Attendees))
        /\ CASE r.stop = "error" ->
                  /\ ret' = ReplyError(s, "FinalizeRequest", ErrorInternal)
                  /\ EndTask(s, heap, sm)
                  /\ UNCHANGED bft
             [] r.stop = "wait" ->
                  LET t == [task EXCEPT !.pc = "cc", !.idx = r.idx,
                                        !.sync = syncMetas[s][task.DescID]]
                  IN  /\ fin' = [fin EXCEPT ![s] = t]
                      /\ fsHeap' = [fsHeap EXCEPT ![s] = heap]
                      /\ smHeap' = [smHeap EXCEPT ![s] =
                             Restrict(sm, SmRefs(syncMetas[s], t))]
                      /\ UNCHANGED <<bft, ret>>
             [] r.stop = "end" -> SignStart(s, task, heap, sm)

\* The test of line 191: the statement is sent as it is if it verifies.
KnownFinal_Never(final) == FALSE

KnownFinal(final) == Verify(final)

\* FinalizeRequest from the request to its first wait or its return
\* (lines 173-222).
FinalizeRequest(s, descID, atts, sig) ==
    /\ alive[s]
    /\ fin[s].pc = "idle"
    /\ calls.final < MaxFinalizeRequest
    /\ calls' = [calls EXCEPT !.final = @ + 1]
    /\ IF \/ Public[s] = NoKey
          \/ ~VerifySchnorr(Public[s], RequestHash(descID, atts), sig)
          \/ ~Has(Finals[s], descID)
       THEN /\ ret' = ReplyError(s, "FinalizeRequest", ErrorInternal)
            /\ UNCHANGED <<fsHeap, smHeap, queue, fin, bft>>
       ELSE IF KnownFinal(FinalAt(s, descID))
       THEN \* "Sending known final statement"
            /\ ret' = ReplyOk(s, "FinalizeRequest", <<>>, <<FinalAt(s, descID)>>)
            /\ UNCHANGED <<fsHeap, smHeap, queue, fin, bft>>
       ELSE LET fid == Finals[s][descID]
                heap == [fsHeap[s] EXCEPT ![fid].Attendees = atts]
                task == [IdleTask EXCEPT !.DescID = descID, !.Attendees = atts,
                            !.PopHash = DescHash(heap[fid].Desc), !.final = fid,
                            !.roster = heap[fid].Desc.Roster.List]
            IN  FinalizeLoop(s, task, 1, heap, smHeap[s])
    /\ UNCHANGED <<Pin, Public, Finals, mergeMetas, syncMetas, mmHeap, storage,
                   alive, prop, mrg>>

\* The handler reads the reply from ccChannel (lines 208-212) and goes on.
FinalizeReply(s) ==
    /\ alive[s]
    /\ fin[s].pc = "cc"
    /\ smHeap[s][fin[s].sync].ccChannel # <<>>
    /\ LET rep == Head(smHeap[s][fin[s].sync].ccChannel)
           sm == [smHeap[s] EXCEPT ![fin[s].sync].ccChannel = <<>>]
       IN  IF rep.nil
           THEN /\ ret' = ReplyError(s, "FinalizeRequest", ErrorOtherFinals)
                /\ EndTask(s, fsHeap[s], sm)
                /\ UNCHANGED <<queue, bft>>
           ELSE FinalizeLoop(s, fin[s], fin[s].idx + 1, fsHeap[s], sm)
    /\ UNCHANGED <<Pin, Public, Finals, mergeMetas, syncMetas, mmHeap, storage,
                   alive, prop, calls, mrg>>

\* ------------------------------------------------------------------------
\* CheckConfig and CheckConfigReply
\* ------------------------------------------------------------------------
\* SendRaw of a reply: an error is only logged.
SendReply(q, from, to, msg) ==
    IF alive[to] THEN [q EXCEPT ![<<from, to>>] = Append(@, msg)] ELSE q

\* CheckConfig at conode m, sent by conode c (lines 504-531).
CheckConfig(m, c) ==
    /\ alive[m]
    /\ queue[<<c, m>>] # <<>>
    /\ Head(queue[<<c, m>>]).type = "CheckConfig"
    /\ LET cc == Head(queue[<<c, m>>])
           q == [queue EXCEPT ![<<c, m>>] = Tail(@)]
           known == Has(Finals[m], cc.PopHash)
           common == IF known
                     THEN intersectAttendees(FinalAt(m, cc.PopHash).Attendees,
                                             cc.Attendees)
                     ELSE <<>>
           ccr == IF DOMAIN Finals[m] = {}
                  THEN CheckConfigReplyMsg(PopStatusOK, cc.PopHash, <<>>)
                  ELSE IF ~known
                  THEN CheckConfigReplyMsg(PopStatusWrongHash, cc.PopHash, <<>>)
                  ELSE IF Len(common) = 0
                  THEN CheckConfigReplyMsg(PopStatusNoAttendees, cc.PopHash, <<>>)
                  ELSE CheckConfigReplyMsg(PopStatusOK, cc.PopHash, common)
       IN  /\ fsHeap' = [fsHeap EXCEPT ![m] =
                  IF known
                  THEN [@ EXCEPT ![Finals[m][cc.PopHash]].Attendees = common]
                  ELSE @]
           /\ queue' = SendReply(q, m, c, ccr)
    /\ UNCHANGED <<Pin, Public, Finals, mergeMetas, syncMetas, mmHeap, smHeap,
                   storage, alive, fin, bft, prop, ret, calls, mrg>>

\* CheckConfigReply at conode s, sent by conode m (lines 535-562).
CheckConfigReply(s, m) ==
    /\ alive[s]
    /\ queue[<<m, s>>] # <<>>
    /\ Head(queue[<<m, s>>]).type = "CheckConfigReply"
    /\ LET ccrVal == Head(queue[<<m, s>>])
           known == Has(Finals[s], ccrVal.PopHash)
           good == known /\ ccrVal.PopStatus >= PopStatusOK
           ccr == IF good THEN SomeReply(ccrVal) ELSE NilReply
       IN  /\ queue' = [queue EXCEPT ![<<m, s>>] = Tail(@)]
           /\ fsHeap' = [fsHeap EXCEPT ![s] =
                  IF good
                  THEN [@ EXCEPT ![Finals[s][ccrVal.PopHash]].Attendees =
                          intersectAttendees(@, ccrVal.Attendees)]
                  ELSE @]
           /\ smHeap' = [smHeap EXCEPT ![s] =
                  IF Has(syncMetas[s], ccrVal.PopHash)
                  THEN LET sid == syncMetas[s][ccrVal.PopHash]
                       IN  IF Len(@[sid].ccChannel) = 0
                           THEN [@ EXCEPT ![sid].ccChannel = <<ccr>>]
                           ELSE @
                  ELSE @]
    /\ UNCHANGED <<Pin, Public, Finals, mergeMetas, syncMetas, mmHeap, storage,
                   alive, fin, bft, prop, ret, calls, mrg>>

\* ------------------------------------------------------------------------
\* Collective signing and propagation
\* ------------------------------------------------------------------------
\* bftVerifyMerge (lines 809-847): yes, no, or log.Fatal ends the process.
bftVerifyMerge(m, Msg, Data) ==
    LET fs == NewFinalStatementFromToml(Data[1])
        hashReceived == FinalHash(fs)
        hash == DescHash(fs.Desc)
    IN  IF Msg # hashReceived THEN "no"
        ELSE IF ~Has(Finals[m], hash) THEN "fatal"
        ELSE IF FinalHash(FinalAt(m, hash)) # hashReceived THEN "no"
        ELSE "yes"

\* The process of conode m ends: its handlers and its rounds end with it.
Stopped(m, f, b) ==
    /\ alive' = [alive EXCEPT ![m] = FALSE]
    /\ fin' = [f EXCEPT ![m] = IdleTask]
    /\ bft' = [b EXCEPT ![m] = IdleRound]
    /\ mrg' = StopMerges(m)

\* Conode m runs the verification function of the round rooted at root.
BftVerify(root, m) ==
    /\ alive[root] /\ alive[m]
    /\ bft[root].active
    /\ m \in DOMAIN bft[root].votes
    /\ bft[root].votes[m] = "none"
    /\ LET v == bftVerifyMerge(m, bft[root].Msg, bft[root].Data)
       IN  IF v = "fatal"
           THEN Stopped(m, fin, bft)
           ELSE /\ bft' = [bft EXCEPT ![root].votes[m] = v]
                /\ UNCHANGED <<alive, fin, mrg>>
    /\ UNCHANGED <<serverData, queue, prop, ret, calls>>

\* The signature the round gives to the callback of lines 288-294: the
\* collective signature of the tree over Msg cut to its first 64 bytes if
\* every conode accepted, and the empty signature if one refused.
RoundSignature(root) ==
    IF \A m \in DOMAIN bft[root].votes : bft[root].votes[m] = "yes"
    THEN CoSign(Range(bft[root].tree), bft[root].Msg, root)
    ELSE EmptySig

PropagateMsg(root, m, fs) == [root |-> root, to |-> m, fs |-> fs]

\* signAndPropagateFinal from the signature to the start of the
\* propagation (lines 298-307).
SignatureDone(root) ==
    /\ alive[root]
    /\ fin[root].pc = "sign"
    /\ bft[root].active
    /\ \A m \in DOMAIN bft[root].votes : bft[root].votes[m] # "none"
    /\ LET fid == fin[root].final
           final == [fsHeap[root][fid] EXCEPT !.Signature = RoundSignature(root)]
       IN  /\ fsHeap' = [fsHeap EXCEPT ![root][fid] = final]
           /\ prop' = prop \cup {PropagateMsg(root, m, final) :
                                    m \in Range(final.Desc.Roster.List)}
    /\ fin' = [fin EXCEPT ![root].pc = "prop"]
    /\ bft' = [bft EXCEPT ![root] = IdleRound]
    /\ UNCHANGED <<Pin, Public, Finals, mergeMetas, syncMetas, mmHeap, smHeap,
                   storage, alive, queue, ret, calls, mrg>>

\* The signature did not come within TIMEOUT (lines 301-305).
SignTimeout(root) ==
    /\ alive[root]
    /\ fin[root].pc = "sign"
    \* the round ends well within TIMEOUT unless a conode of the tree is gone
    /\ \E m \in DOMAIN bft[root].votes : ~alive[m]
    /\ ret' = ReplyError(root, "FinalizeRequest", ErrorTimeout)
    /\ EndTask(root, fsHeap[root], smHeap[root])
    /\ bft' = [bft EXCEPT ![root] = IdleRound]
    /\ UNCHANGED <<Pin, Public, Finals, mergeMetas, syncMetas, mmHeap, storage,
                   alive, queue, prop, calls, mrg>>

\* PropagateFinal at conode m (lines 319-332).  Storing through the nil
\* pointer of an absent key panics, which ends the process.
PropagateFinal(m, msg) ==
    /\ alive[m]
    /\ msg \in prop
    /\ msg.to = m
    /\ prop' = prop \ {msg}
    /\ LET fs == msg.fs
           hash == DescHash(fs.Desc)
       IN  IF ~Verify(fs)
           THEN UNCHANGED <<fsHeap, storage, alive, fin, bft, mrg>>
           ELSE IF ~Has(Finals[m], hash)
           THEN /\ Stopped(m, fin, bft)
                /\ UNCHANGED <<fsHeap, storage>>
           ELSE LET heap == [fsHeap[m] EXCEPT ![Finals[m][hash]] = fs]
                IN  /\ fsHeap' = [fsHeap EXCEPT ![m] = heap]
                    /\ storage' = [storage EXCEPT ![m] =
                           Saved(Pin[m], Public[m], Finals[m], heap)]
                    /\ UNCHANGED <<alive, fin, bft, mrg>>
    /\ UNCHANGED <<Pin, Public, Finals, mergeMetas, syncMetas, mmHeap, smHeap,
                   queue, ret, calls>>

\* Propagate returned: signAndPropagateFinal saves and FinalizeRequest
\* replies with its final statement (lines 308-315, 222).
FinalizeDone(s) ==
    /\ alive[s]
    /\ fin[s].pc = "prop"
    /\ storage' = [storage EXCEPT ![s] =
           Saved(Pin[s], Public[s], Finals[s], fsHeap[s])]
    /\ ret' = ReplyOk(s, "FinalizeRequest", <<>>, <<fsHeap[s][fin[s].final]>>)
    /\ EndTask(s, fsHeap[s], smHeap[s])
    /\ UNCHANGED <<Pin, Public, Finals, mergeMetas, syncMetas, mmHeap, alive,
                   queue, bft, prop, calls, mrg>>

\* ------------------------------------------------------------------------
\* FetchFinal
\* ------------------------------------------------------------------------
FetchFinalReply_NoSignatureTest(s, id) ==
    IF ~Has(Finals[s], id) THEN ReplyError(s, "FetchFinal", ErrorInternal)
    ELSE ReplyOk(s, "FetchFinal", <<>>, <<FinalAt(s, id)>>)

\* The reply of FetchFinal (lines 336-350).
FetchFinalReply(s, id) ==
    IF ~Has(Finals[s], id) THEN ReplyError(s, "FetchFinal", ErrorInternal)
    ELSE IF FinalAt(s, id).Signature.len <= 0
    THEN ReplyError(s, "FetchFinal", ErrorOtherFinals)
    ELSE ReplyOk(s, "FetchFinal", <<>>, <<FinalAt(s, id)>>)

\* FetchFinal (lines 336-350).
FetchFinal(s, id) ==
    /\ alive[s]
    /\ calls.fetch < MaxFetchFinal
    /\ calls' = [calls EXCEPT !.fetch = @ + 1]
    /\ ret' = FetchFinalReply(s, id)
    /\ UNCHANGED <<serverData, alive, queue, fin, bft, prop, mrg>>

\* ------------------------------------------------------------------------
\* The link manager and the party store of two conodes, with restarts
\* ------------------------------------------------------------------------
LinkServers == {"s1", "s2"}

NextLink ==
    \/ \E s \in LinkServers, pin \in ReqPins, pub \in OrgKeys : PinRequest(s, pin, pub)
    \/ \E s \in LinkServers, desc \in StoreDescs :
          \E sig \in StoreSigs(desc) : StoreConfig(s, desc, sig)
    \/ \E s \in LinkServers : Restart(s)
    \/ \E s \in LinkServers, id \in FinalizeIDs : FetchFinal(s, id)

SpecLink == Init /\ [][NextLink]_vars

\* ------------------------------------------------------------------------
\* The party protocol on three conodes linked to one organizer
\* ------------------------------------------------------------------------
\* Every conode went through "org link" with the organizer's key: the PIN
\* was printed, the key was stored with it and the link was saved.
LinkedPin == "111111"
LinkedKey == "o1"
InitLinked ==
    /\ Pin = [s \in Servers |-> LinkedPin]
    /\ Public = [s \in Servers |-> LinkedKey]
    /\ Finals = [s \in Servers |-> EmptyMap]
    /\ mergeMetas = [s \in Servers |-> EmptyMap]
    /\ syncMetas = [s \in Servers |-> EmptyMap]
    /\ fsHeap = [s \in Servers |-> EmptyMap]
    /\ mmHeap = [s \in Servers |-> EmptyMap]
    /\ smHeap = [s \in Servers |-> EmptyMap]
    /\ storage = [s \in Servers |-> Saved(LinkedPin, LinkedKey, EmptyMap, EmptyMap)]
    /\ alive = [s \in Servers |-> TRUE]
    /\ queue = [p \in Servers \X Servers |-> <<>>]
    /\ fin = [s \in Servers |-> IdleTask]
    /\ bft = [s \in Servers |-> IdleRound]
    /\ prop = {}
    /\ ret = NoReply
    /\ calls = NoCalls
    /\ mrg = [k \in MergeSlots |-> IdleMerge]

Next ==
    \/ \E s \in Servers, desc \in PartyDescs :
         StoreConfig(s, desc, SignSchnorr(LinkedKey, DescHash(desc)))
    \/ \E s \in Servers, id \in FinalizeIDs, atts \in AttLists :
         \E sig \in FinalizeSigs(id, atts) : FinalizeRequest(s, id, atts, sig)
    \/ \E s \in Servers : FinalizeReply(s)
    \/ \E m \in Servers, c \in Servers : CheckConfig(m, c)
    \/ \E s \in Servers, m \in Servers : CheckConfigReply(s, m)
    \/ \E root \in Servers, m \in Servers : BftVerify(root, m)
    \/ \E root \in Servers : SignatureDone(root)
    \/ \E root \in Servers : SignTimeout(root)
    \/ \E m \in Servers : \E msg \in prop : PropagateFinal(m, msg)
    \/ \E s \in Servers : FinalizeDone(s)

Spec == InitLinked /\ [][Next]_vars

\* ------------------------------------------------------------------------
\* Merging sibling parties: lists, rosters and messages
\* ------------------------------------------------------------------------
\* strings.Compare on the String() form of a key or of a server identity and
\* on a location: the strings the model compares, in ascending order.
StringOrder ==
    <<"cityA", "cityA; cityA; cityB", "cityA; cityA; cityB; cityB",
      "cityA; cityB", "cityA; cityB; cityB", "cityB", "cityX",
      "k1", "k2", "k3", "s1", "s2", "s3">>
StringRank(x) == IndexOf(StringOrder, x)
SortStrings(seq) == SortSeq(seq, LAMBDA a, b : StringRank(a) < StringRank(b))

DELIMETER == "; "

\* strings.Join(locs, DELIMETER)
RECURSIVE Join(_)
Join(locs) == IF locs = <<>> THEN ""
              ELSE IF Len(locs) = 1 THEN locs[1]
              ELSE locs[1] \o DELIMETER \o Join(Tail(locs))

\* unionAttendies: all of atts1, then the keys of atts2 that are not in
\* atts1, sorted.
unionAttendies(atts1, atts2) ==
    SortStrings(atts1 \o SelectSeq(atts2, LAMBDA p : p \notin Range(atts1)))

\* unionRoster: the same on the server identities, made into a new roster.
unionRoster(r1, r2) ==
    NewRoster(SortStrings(r1.List \o
                          SelectSeq(r2.List, LAMBDA x : x \notin Range(r1.List))))

Equal_Always(r1, r2) == TRUE

\* Equal: the lists have one length and every identity of r2 is in r1.
Equal(r1, r2) ==
    /\ Len(r1.List) = Len(r2.List)
    /\ \A p \in Range(r2.List) : p \in Range(r1.List)

\* FinalStatement.VerifyMergeStatement.  A local statement that does not
\* verify is only logged, and found starts as true, so the search in the
\* merge list cannot fail.
VerifyMergeStatement(final, mergeFinal) ==
    IF mergeFinal.Signature.len <= 0 THEN PopStatusMergeNonFinalized
    ELSE IF ~Verify(mergeFinal) THEN PopStatusMergeError
    ELSE IF final.Desc.DateTime # mergeFinal.Desc.DateTime THEN PopStatusMergeError
    ELSE LET found == TRUE \/ \E i \in DOMAIN final.Desc.Parties :
                          Equal(final.Desc.Parties[i].Roster, mergeFinal.Desc.Roster)
         IN  IF ~found THEN PopStatusMergeError ELSE PopStatusOK

\* The hash of the sibling party described by a ShortDesc of desc.Parties
\* (lines 733-740, 692-699).
PartyHash(desc, party) ==
    DescHash([Name |-> desc.Name, DateTime |-> desc.DateTime,
              Location |-> party.Location, Roster |-> party.Roster,
              Parties |-> desc.Parties])

\* Final is <<>> for a nil pointer and <<statement>> otherwise.
MergeConfigMsg(final, id) ==
    [type |-> "MergeConfig", Final |-> <<final>>, ID |-> id]
MergeConfigReplyMsg_NoFinal(status, hash, final) ==
    [type |-> "MergeConfigReply", PopStatus |-> status, PopHash |-> hash,
     Final |-> <<>>]

MergeConfigReplyMsg(status, hash, final) ==
    [type |-> "MergeConfigReply", PopStatus |-> status, PopHash |-> hash,
     Final |-> final]
MergeCheckMsg(info, sndr, recv) ==
    [type |-> "MergeCheck", MergeInfo |-> info, IDsndr |-> sndr, IDrecv |-> recv]
MergeCheckReplyMsg_AlwaysOK(id, status) ==
    [type |-> "MergeCheckReply", ID |-> id, PopStatus |-> PopStatusOK]

MergeCheckReplyMsg(id, status) ==
    [type |-> "MergeCheckReply", ID |-> id, PopStatus |-> status]

\* What mcChannel holds: a nil pointer or a MergeConfigReply.
NilMergeReply == [nil |-> TRUE, PopStatus |-> 0, PopHash |-> <<>>, Final |-> <<>>]
SomeMergeReply(status, hash, final) ==
    [nil |-> FALSE, PopStatus |-> status, PopHash |-> hash, Final |-> final]

\* The statements of a statementsMap, in the order the map is ranged over.
\* Every loop over them forms sorted unions or stops at the first statement
\* that is refused, so one order stands for all.
Statements(heap, meta) ==
    LET keys == SeqOf(DOMAIN meta.statementsMap)
    IN  [i \in DOMAIN keys |-> heap[meta.statementsMap[keys[i]]]]

\* The loops of lines 630-638 and 783-794 over the statements fs[1..n]:
\* the attendees, the roster and the locations they accumulate.
RECURSIVE UniteAttendees(_, _)
UniteAttendees(atts, fs) ==
    IF fs = <<>> THEN atts
    ELSE UniteAttendees(unionAttendies(atts, Head(fs).Attendees), Tail(fs))

RECURSIVE UniteRoster(_, _)
UniteRoster(roster, fs) ==
    IF fs = <<>> THEN roster
    ELSE UniteRoster(unionRoster(roster, Head(fs).Desc.Roster), Tail(fs))

UniteLocation(fs) == Join(SortStrings([i \in DOMAIN fs |-> fs[i].Desc.Location]))

United_Unmarked(final, r0, fs) ==
    [final EXCEPT !.Attendees = UniteAttendees(final.Attendees, fs),
                  !.Desc.Roster = UniteRoster(r0, fs),
                  !.Desc.Location = UniteLocation(fs)]

\* The statement after the loop: final's own list and initial roster r0
\* united with those of the statements.
United(final, r0, fs) ==
    [final EXCEPT !.Attendees = UniteAttendees(final.Attendees, fs),
                  !.Desc.Roster = UniteRoster(r0, fs),
                  !.Desc.Location = UniteLocation(fs),
                  !.Merged = TRUE]

\* ------------------------------------------------------------------------
\* MergeRequest and Merge
\* ------------------------------------------------------------------------
\* What a step of a MergeRequest handler at a conode works on: the conode's
\* objects and maps, the messages in flight, the handler's local variables
\* and the reply it gives, if it returns.
MergeState(s, task) ==
    [fs |-> fsHeap[s], mm |-> mmHeap[s], sm |-> smHeap[s], finals |-> Finals[s],
     metas |-> mergeMetas[s], syncs |-> syncMetas[s], q |-> queue,
     task |-> task, reply |-> <<>>]

\* The statements the MergeRequest handlers at s point to; slot k holds task.
MergeRefs(s, k, task) ==
    {t.final : t \in {x \in {IF j = k THEN task ELSE mrg[j] : j \in MergeSlots} :
                        x.at = s /\ x.final # 0}}

\* The step of handler k at s is done: the state it leaves.
MergeApply(s, k, st) ==
    /\ fsHeap' = [fsHeap EXCEPT ![s] =
           Restrict(st.fs, FsRefs(st.finals, st.mm, fin[s])
                              \cup MergeRefs(s, k, st.task))]
    /\ mmHeap' = [mmHeap EXCEPT ![s] = st.mm]
    /\ smHeap' = [smHeap EXCEPT ![s] = st.sm]
    /\ Finals' = [Finals EXCEPT ![s] = st.finals]
    /\ mergeMetas' = [mergeMetas EXCEPT ![s] = st.metas]
    /\ syncMetas' = [syncMetas EXCEPT ![s] = st.syncs]
    /\ queue' = st.q
    /\ mrg' = [mrg EXCEPT ![k] = st.task]
    /\ ret' = IF st.reply = <<>> THEN ret ELSE st.reply[1]

\* The handler returns a ClientError.
MergeFail(st, s, code) ==
    [st EXCEPT !.task = IdleMerge,
               !.reply = <<ReplyError(s, "MergeRequest", code)>>]

\* signAndPropagateFinal up to the wait for the signature (lines 258-297).
MergeSign(st, s) ==
    LET final == st.fs[st.task.final]
        tree == final.Desc.Roster.List
    IN  IF s \notin Range(tree)
        THEN MergeFail(st, s, ErrorInternal)
        ELSE [st EXCEPT !.fs[st.task.final].Signature = EmptySig,
                        !.task.pc = "sign",
                        !.task.round =
                            [active |-> TRUE, Msg |-> FinalHash(final),
                             Data |-> <<ToToml(final)>>, tree |-> tree,
                             votes |-> [m \in Range(tree) |-> "none"]]]

\* The conodes broadcastFinal sends a MergeCheck to, in order, each with
\* the hash of the party it is addressed as (lines 693-710).
RECURSIVE CheckTargets(_, _, _, _)
CheckTargets(s, desc, i, j) ==
    IF i > Len(desc.Parties) THEN <<>>
    ELSE IF j > Len(desc.Parties[i].Roster.List) THEN CheckTargets(s, desc, i + 1, 1)
    ELSE LET si == desc.Parties[i].Roster.List[j]
             recv == PartyHash(desc, desc.Parties[i])
         IN  (IF si = s /\ recv = DescHash(desc) THEN <<>> ELSE << <<si, recv>> >>)
                 \o CheckTargets(s, desc, i, j + 1)

\* The sends of lines 701-709; the first SendRaw that fails ends them.
RECURSIVE SendChecks(_, _, _, _, _)
SendChecks(q, s, targets, info, sndr) ==
    IF targets = <<>> THEN [q |-> q, ok |-> TRUE]
    ELSE IF ~alive[Head(targets)[1]] THEN [q |-> q, ok |-> FALSE]
    ELSE SendChecks([q EXCEPT ![<<s, Head(targets)[1]>>] =
                        Append(@, MergeCheckMsg(info, sndr, Head(targets)[2]))],
                    s, Tail(targets), info, sndr)

\* The number of conodes of all parties (lines 685-688).
RECURSIVE CountConodes(_)
CountConodes(parties) ==
    IF parties = <<>> THEN 0
    ELSE Len(Head(parties).Roster.List) + CountConodes(Tail(parties))

\* broadcastFinal up to mcGroup.Wait() (lines 669-711).  Its errors are
\* returned through onet.NewClientError, which carries none of the
\* service's codes.
broadcastFinal(st, s) ==
    LET final == st.fs[st.task.final]
        meta == st.mm[st.task.meta]
        sndr == DescHash(final.Desc)
    IN  IF ~Has(st.syncs, sndr) THEN MergeFail(st, s, 0)
        ELSE LET wg == st.syncs[sndr]
                 n == CountConodes(final.Desc.Parties) - 1
                 sent == SendChecks(st.q, s, CheckTargets(s, final.Desc, 1, 1),
                                    Statements(st.fs, meta), sndr)
                 st1 == [st EXCEPT !.sm[wg].mcGroup = @ + n, !.q = sent.q]
             IN  IF ~sent.ok THEN MergeFail(st1, s, 0)
                 ELSE [st1 EXCEPT !.task.pc = "wg", !.task.wg = wg]

\* Merge from sibling party p on (lines 732-775), and from conode j of
\* party p on (lines 746-772): up to the wait on mcChannel, or to the end.
RECURSIVE MergeParty(_, _, _)
RECURSIVE MergeSend(_, _, _, _)
MergeParty(st, s, p) ==
    LET final == st.fs[st.task.final]
        meta == st.mm[st.task.meta]
    IN  IF p > Len(final.Desc.Parties) THEN broadcastFinal(st, s)
        ELSE IF Has(meta.statementsMap, PartyHash(final.Desc, final.Desc.Parties[p]))
        THEN MergeParty(st, s, p + 1)
        ELSE MergeSend(st, s, p, 1)

MergeSend(st, s, p, j) ==
    LET final == st.fs[st.task.final]
        meta == st.mm[st.task.meta]
        party == final.Desc.Parties[p]
        hash == PartyHash(final.Desc, party)
    IN  IF j > Len(party.Roster.List)
        THEN IF Has(meta.statementsMap, hash) THEN MergeParty(st, s, p + 1)
             ELSE MergeFail(st, s, ErrorMerge)
        ELSE IF ~alive[party.Roster.List[j]] THEN MergeFail(st, s, ErrorInternal)
        ELSE [st EXCEPT !.q[<<s, party.Roster.List[j]>>] =
                            Append(@, MergeConfigMsg(final, hash)),
                        !.task.pc = "mc", !.task.party = p, !.task.si = j]

\* Merge after broadcastFinal (lines 780-805), then signAndPropagateFinal.
MergeUnite(st, s) ==
    LET fid == st.task.final
        mid == st.task.meta
        merged == United(st.fs[fid], NewRoster(<<>>), Statements(st.fs, st.mm[mid]))
        hash == DescHash(merged.Desc)
    IN  MergeSign([st EXCEPT !.fs[fid] = merged,
                             !.finals = Put(@, hash, fid),
                             !.metas = Put(@, hash, mid),
                             !.syncs = Put(@, hash, st.task.sync),
                             !.mm[mid].statementsMap = Put(EmptyMap, hash, fid)], s)

\* MergeRequest up to the test of meta.distrib in Merge (lines 354-400,
\* 720).  A handler that finds the flag set leaves Merge at once and goes
\* on with signAndPropagateFinal (line 404).
MergeRequest(s, id, sig) ==
    /\ alive[s]
    /\ calls.merge < MaxMergeRequest
    /\ calls' = [calls EXCEPT !.merge = @ + 1]
    /\ LET k == calls.merge + 1
           st == MergeState(s, IdleMerge)
       IN  MergeApply(s, k,
             IF \/ Public[s] = NoKey
                \/ ~VerifySchnorr(Public[s], id, sig)
                \/ ~Has(Finals[s], id)
                \/ ~Has(mergeMetas[s], id)
             THEN MergeFail(st, s, ErrorInternal)
             ELSE LET final == FinalAt(s, id)
                      task == [IdleMerge EXCEPT !.at = s, !.final = Finals[s][id],
                                                !.meta = mergeMetas[s][id]]
                  IN  IF final.Signature.len <= 0 \/ ~Verify(final)
                      THEN MergeFail(st, s, ErrorOtherFinals)
                      ELSE IF Len(final.Desc.Parties) <= 1
                      THEN MergeFail(st, s, ErrorInternal)
                      ELSE IF final.Merged
                      THEN [st EXCEPT !.reply =
                               <<ReplyOk(s, "MergeRequest", <<>>, <<final>>)>>]
                      ELSE IF ~\E i \in DOMAIN final.Desc.Parties :
                                 Equal(final.Desc.Parties[i].Roster, final.Desc.Roster)
                      THEN MergeFail(st, s, ErrorInternal)
                      ELSE IF mmHeap[s][task.meta].distrib
                      THEN MergeSign([st EXCEPT !.task = task], s)
                      ELSE [st EXCEPT !.task = [task EXCEPT !.pc = "enter"]])
    /\ UNCHANGED <<Pin, Public, storage, alive, fin, bft, prop>>

\* Merge sets the flag and runs to its first wait (lines 726-759).  The
\* test of line 720 and this assignment are not guarded by any lock.
MergeEnter(k) ==
    /\ mrg[k].pc = "enter"
    /\ alive[mrg[k].at]
    /\ LET s == mrg[k].at
           st == [MergeState(s, mrg[k]) EXCEPT !.mm[mrg[k].meta].distrib = TRUE]
           hash == DescHash(st.fs[mrg[k].final].Desc)
       IN  MergeApply(s, k,
             IF ~Has(st.syncs, hash) THEN MergeFail(st, s, ErrorMerge)
             ELSE MergeParty([st EXCEPT !.task.sync = st.syncs[hash]], s, 1))
    /\ UNCHANGED <<Pin, Public, storage, alive, fin, bft, prop, calls>>

\* Merge reads a reply from mcChannel and goes on (lines 754-772).
MergeReply(k) ==
    /\ mrg[k].pc = "mc"
    /\ alive[mrg[k].at]
    /\ smHeap[mrg[k].at][mrg[k].sync].mcChannel # <<>>
    /\ LET s == mrg[k].at
           mcr == Head(smHeap[s][mrg[k].sync].mcChannel)
           st == [MergeState(s, mrg[k]) EXCEPT !.sm[mrg[k].sync].mcChannel = <<>>]
           final == st.fs[mrg[k].final]
           hash == PartyHash(final.Desc, final.Desc.Parties[mrg[k].party])
           nid == FreshId(DOMAIN st.fs)
       IN  MergeApply(s, k,
             IF mcr.nil THEN MergeFail(st, s, ErrorMerge)
             ELSE IF mcr.PopStatus = PopStatusOK
             THEN MergeParty([st EXCEPT !.fs = Put(@, nid, mcr.Final[1]),
                                        !.mm[mrg[k].meta].statementsMap =
                                             Put(@, hash, nid)],
                             s, mrg[k].party + 1)
             ELSE MergeSend(st, s, mrg[k].party, mrg[k].si + 1))
    /\ UNCHANGED <<Pin, Public, storage, alive, fin, bft, prop, calls>>

\* No reply came within TIMEOUT (lines 756-758): none is in mcChannel, and
\* no MergeConfig of this conode and no reply to it is on its way.
MergeTimeout(k) ==
    /\ mrg[k].pc = "mc"
    /\ alive[mrg[k].at]
    /\ smHeap[mrg[k].at][mrg[k].sync].mcChannel = <<>>
    /\ \A x \in Servers :
          /\ alive[x] => \A i \in DOMAIN queue[<<mrg[k].at, x>>] :
                            queue[<<mrg[k].at, x>>][i].type # "MergeConfig"
          /\ \A i \in DOMAIN queue[<<x, mrg[k].at>>] :
                queue[<<x, mrg[k].at>>][i].type # "MergeConfigReply"
    /\ MergeApply(mrg[k].at, k,
                  MergeFail(MergeState(mrg[k].at, mrg[k]), mrg[k].at, ErrorTimeout))
    /\ UNCHANGED <<Pin, Public, storage, alive, fin, bft, prop, calls>>

\* mcGroup.Wait() returns (line 711): Merge unites the statements and
\* MergeRequest starts signing.
MergeWait(k) ==
    /\ mrg[k].pc = "wg"
    /\ alive[mrg[k].at]
    /\ smHeap[mrg[k].at][mrg[k].wg].mcGroup = 0
    /\ MergeApply(mrg[k].at, k, MergeUnite(MergeState(mrg[k].at, mrg[k]), mrg[k].at))
    /\ UNCHANGED <<Pin, Public, storage, alive, fin, bft, prop, calls>>

\* ------------------------------------------------------------------------
\* MergeConfig, MergeConfigReply, MergeCheck and MergeCheckReply
\* ------------------------------------------------------------------------
\* MergeConfig at conode m, sent by conode c (lines 415-462).
MergeConfig(m, c) ==
    /\ alive[m]
    /\ queue[<<c, m>>] # <<>>
    /\ Head(queue[<<c, m>>]).type = "MergeConfig"
    /\ LET mc == Head(queue[<<c, m>>])
           q == [queue EXCEPT ![<<c, m>>] = Tail(@)]
           sender == DescHash(mc.Final[1].Desc)
           known == Has(Finals[m], mc.ID) /\ Has(mergeMetas[m], mc.ID)
           status == IF ~known THEN PopStatusWrongHash
                     ELSE VerifyMergeStatement(FinalAt(m, mc.ID), mc.Final[1])
           already == known /\ status >= PopStatusOK
                      /\ Has(mmHeap[m][mergeMetas[m][mc.ID]].statementsMap, sender)
           nid == FreshId(DOMAIN fsHeap[m])
       IN  IF ~known \/ status < PopStatusOK
           THEN /\ queue' = SendReply(q, m, c,
                                MergeConfigReplyMsg(status, sender, <<>>))
                /\ UNCHANGED <<fsHeap, mmHeap>>
           ELSE IF already
           THEN /\ queue' = SendReply(q, m, c,
                                MergeConfigReplyMsg(PopStatusMergeError, sender, <<>>))
                /\ UNCHANGED <<fsHeap, mmHeap>>
           ELSE /\ fsHeap' = [fsHeap EXCEPT ![m] = Put(@, nid, mc.Final[1])]
                /\ mmHeap' = [mmHeap EXCEPT ![m][mergeMetas[m][mc.ID]].statementsMap =
                                 Put(@, sender, nid)]
                /\ queue' = SendReply(q, m, c,
                                MergeConfigReplyMsg(status, sender,
                                                    <<FinalAt(m, mc.ID)>>))
    /\ UNCHANGED <<Pin, Public, Finals, mergeMetas, syncMetas, smHeap, storage,
                   alive, fin, bft, prop, ret, calls, mrg>>

\* MergeConfigReply at conode s, sent by conode m (lines 465-498).
MergeConfigReply(s, m) ==
    /\ alive[s]
    /\ queue[<<m, s>>] # <<>>
    /\ Head(queue[<<m, s>>]).type = "MergeConfigReply"
    /\ LET mcrVal == Head(queue[<<m, s>>])
           mcr == IF ~Has(Finals[s], mcrVal.PopHash) THEN NilMergeReply
                  ELSE IF mcrVal.PopStatus < PopStatusOK
                  THEN SomeMergeReply(mcrVal.PopStatus, mcrVal.PopHash, mcrVal.Final)
                  ELSE IF mcrVal.Final = <<>> THEN NilMergeReply
                  ELSE SomeMergeReply(
                          VerifyMergeStatement(FinalAt(s, mcrVal.PopHash),
                                               mcrVal.Final[1]),
                          mcrVal.PopHash, mcrVal.Final)
       IN  /\ queue' = [queue EXCEPT ![<<m, s>>] = Tail(@)]
           /\ smHeap' = [smHeap EXCEPT ![s] =
                  IF Has(syncMetas[s], mcrVal.PopHash)
                  THEN LET sid == syncMetas[s][mcrVal.PopHash]
                       IN  IF Len(@[sid].mcChannel) = 0
                           THEN [@ EXCEPT ![sid].mcChannel = <<mcr>>]
                           ELSE @
                  ELSE @]
    /\ UNCHANGED <<Pin, Public, Finals, mergeMetas, syncMetas, fsHeap, mmHeap,
                   storage, alive, fin, bft, prop, ret, calls, mrg>>

\* MergeCheck at conode m, sent by conode c (lines 565-651).  The local
\* statement is changed in place and keeps the signature it had.
MergeCheck(m, c) ==
    /\ alive[m]
    /\ queue[<<c, m>>] # <<>>
    /\ Head(queue[<<c, m>>]).type = "MergeCheck"
    /\ LET msg == Head(queue[<<c, m>>])
           q == [queue EXCEPT ![<<c, m>>] = Tail(@)]
           info == msg.MergeInfo
           known == /\ Has(Finals[m], msg.IDrecv)
                    /\ Has(mergeMetas[m], msg.IDrecv)
                    /\ Has(syncMetas[m], msg.IDrecv)
       IN  IF ~known
           THEN /\ queue' = SendReply(q, m, c,
                                MergeCheckReplyMsg(msg.IDsndr, PopStatusWrongHash))
                /\ UNCHANGED <<Finals, mergeMetas, syncMetas, fsHeap, mmHeap, storage>>
           ELSE LET fid == Finals[m][msg.IDrecv]
                    mid == mergeMetas[m][msg.IDrecv]
                    final == fsHeap[m][fid]
                    found == \E i \in DOMAIN info : FinalHash(info[i]) = FinalHash(final)
                    valid == \A i \in DOMAIN info :
                                VerifyMergeStatement(final, info[i]) >= PopStatusOK
                    merged == United(final, final.Desc.Roster, info)
                    newHash == DescHash(merged.Desc)
                    finals == Put(Finals[m], newHash, fid)
                    mm == [mmHeap[m] EXCEPT ![mid].statementsMap =
                                                Put(EmptyMap, newHash, fid)]
                    heap == Restrict([fsHeap[m] EXCEPT ![fid] = merged],
                                     FsRefs(finals, mm, fin[m])
                                        \cup MergeRefs(m, 0, IdleMerge))
                IN  IF ~valid \/ ~found
                    THEN /\ queue' = SendReply(q, m, c,
                                MergeCheckReplyMsg(msg.IDsndr, PopStatusMergeError))
                         /\ UNCHANGED <<Finals, mergeMetas, syncMetas, fsHeap,
                                        mmHeap, storage>>
                    ELSE /\ Finals' = [Finals EXCEPT ![m] = finals]
                         /\ mergeMetas' = [mergeMetas EXCEPT ![m] =
                                              Put(@, newHash, mid)]
                         /\ syncMetas' = [syncMetas EXCEPT ![m] =
                                             Put(@, newHash, @[msg.IDrecv])]
                         /\ fsHeap' = [fsHeap EXCEPT ![m] = heap]
                         /\ mmHeap' = [mmHeap EXCEPT ![m] = mm]
                         /\ storage' = [storage EXCEPT ![m] =
                                Saved(Pin[m], Public[m], finals, heap)]
                         /\ queue' = SendReply(q, m, c,
                                MergeCheckReplyMsg(msg.IDsndr, PopStatusOK))
    /\ UNCHANGED <<Pin, Public, smHeap, alive, fin, bft, prop, ret, calls, mrg>>

\* MergeCheckReply at conode s, sent by conode m (lines 653-667).  Done()
\* on a WaitGroup whose counter is zero panics, which ends the process.
MergeCheckReply(s, m) ==
    /\ alive[s]
    /\ queue[<<m, s>>] # <<>>
    /\ Head(queue[<<m, s>>]).type = "MergeCheckReply"
    /\ LET msg == Head(queue[<<m, s>>])
           q == [queue EXCEPT ![<<m, s>>] = Tail(@)]
       IN  /\ queue' = q
           /\ IF ~Has(syncMetas[s], msg.ID)
              THEN UNCHANGED <<smHeap, alive, fin, bft, mrg>>
              ELSE IF smHeap[s][syncMetas[s][msg.ID]].mcGroup = 0
              THEN /\ Stopped(s, fin, bft)
                   /\ UNCHANGED smHeap
              ELSE /\ smHeap' = [smHeap EXCEPT ![s][syncMetas[s][msg.ID]].mcGroup =
                                    @ - 1]
                   /\ UNCHANGED <<alive, fin, bft, mrg>>
    /\ UNCHANGED <<Pin, Public, Finals, mergeMetas, syncMetas, fsHeap, mmHeap,
                   storage, prop, ret, calls>>

\* ------------------------------------------------------------------------
\* Collective signing and propagation for a MergeRequest
\* ------------------------------------------------------------------------
\* Conode m runs the verification function of the round of handler k.
MergeBftVerify(k, m) ==
    /\ mrg[k].pc = "sign"
    /\ alive[mrg[k].at] /\ alive[m]
    /\ m \in DOMAIN mrg[k].round.votes
    /\ mrg[k].round.votes[m] = "none"
    /\ LET v == bftVerifyMerge(m, mrg[k].round.Msg, mrg[k].round.Data)
       IN  IF v = "fatal"
           THEN Stopped(m, fin, bft)
           ELSE /\ mrg' = [mrg EXCEPT ![k].round.votes[m] = v]
                /\ UNCHANGED <<alive, fin, bft>>
    /\ UNCHANGED <<serverData, queue, prop, ret, calls>>

\* The signature of a round rooted at root (lines 288-294).
SignatureOf(round, root) ==
    IF \A m \in DOMAIN round.votes : round.votes[m] = "yes"
    THEN CoSign(Range(round.tree), round.Msg, root)
    ELSE EmptySig

\* signAndPropagateFinal from the signature to the start of the
\* propagation (lines 298-307).
MergeSignatureDone(k) ==
    /\ mrg[k].pc = "sign"
    /\ alive[mrg[k].at]
    /\ \A m \in DOMAIN mrg[k].round.votes : mrg[k].round.votes[m] # "none"
    /\ LET root == mrg[k].at
           fid == mrg[k].final
           final == [fsHeap[root][fid] EXCEPT
                        !.Signature = SignatureOf(mrg[k].round, root)]
       IN  /\ fsHeap' = [fsHeap EXCEPT ![root][fid] = final]
           /\ prop' = prop \cup {PropagateMsg(root, m, final) :
                                    m \in Range(final.Desc.Roster.List)}
    /\ mrg' = [mrg EXCEPT ![k].pc = "prop", ![k].round = IdleRound]
    /\ UNCHANGED <<Pin, Public, Finals, mergeMetas, syncMetas, mmHeap, smHeap,
                   storage, alive, queue, fin, bft, ret, calls>>

\* The signature did not come within TIMEOUT (lines 301-305).
MergeSignTimeout(k) ==
    /\ mrg[k].pc = "sign"
    /\ alive[mrg[k].at]
    /\ \E m \in DOMAIN mrg[k].round.votes : ~alive[m]
    /\ ret' = ReplyError(mrg[k].at, "MergeRequest", ErrorTimeout)
    /\ mrg' = [mrg EXCEPT ![k] = IdleMerge]
    /\ UNCHANGED <<serverData, alive, queue, fin, bft, prop, calls>>

\* Propagate returned: signAndPropagateFinal saves and MergeRequest replies
\* with its final statement (lines 308-315, 409).
MergeDone(k) ==
    /\ mrg[k].pc = "prop"
    /\ alive[mrg[k].at]
    /\ storage' = [storage EXCEPT ![mrg[k].at] =
           Saved(Pin[mrg[k].at], Public[mrg[k].at], Finals[mrg[k].at],
                 fsHeap[mrg[k].at])]
    /\ ret' = ReplyOk(mrg[k].at, "MergeRequest", <<>>,
                      <<fsHeap[mrg[k].at][mrg[k].final]>>)
    /\ mrg' = [mrg EXCEPT ![k] = IdleMerge]
    /\ UNCHANGED <<Pin, Public, Finals, mergeMetas, syncMetas, fsHeap, mmHeap,
                   smHeap, alive, queue, fin, bft, prop, calls>>

\* ------------------------------------------------------------------------
\* Two sibling parties on three conodes, after "org final"
\* ------------------------------------------------------------------------
\* Party A is held by s1 and s2 and party B by s2 and s3, as the test
\* script sets parties up on overlapping pairs of conodes.  A was finalized
\* by a FinalizeRequest at s1.  B is either finalized, by a FinalizeRequest
\* at s3, or half-way: a FinalizeRequest at s3 ended with OtherFinalsPending
\* because s2 had no attendees yet.
PdB == PopDesc("partyAB", "cityB", NewRoster(RosterB), SiblingsAB)
AttsA == <<"k3", "k1">>
AttsB == <<"k2", "k1">>

SignedStatement(desc, atts, root) ==
    LET fs == [NewFinalStatement(desc) EXCEPT !.Attendees = atts]
    IN  [fs EXCEPT !.Signature = CoSign(Aggregate(desc.Roster), FinalHash(fs), root)]

\* The parties a conode holds, in the order they were stored.
Held(s) == CASE s = "s1" -> <<PdA>>
             [] s = "s2" -> <<PdA, PdB>>
             [] s = "s3" -> <<PdB>>

\* The statement conode s holds for a party, and the one its last save wrote.
HeldFinal(s, desc, stage) ==
    IF desc = PdA THEN SignedStatement(PdA, AttsA, "s1")
    ELSE IF stage = "final" THEN SignedStatement(PdB, AttsB, "s3")
    ELSE IF s = "s3" THEN [NewFinalStatement(PdB) EXCEPT !.Attendees = AttsB]
    ELSE NewFinalStatement(PdB)

HeldSaved(s, desc, stage) ==
    IF desc = PdA \/ stage = "final" THEN HeldFinal(s, desc, stage)
    ELSE NewFinalStatement(PdB)

HeldMap(s) ==
    [h \in {DescHash(Held(s)[i]) : i \in DOMAIN Held(s)} |->
        CHOOSE i \in DOMAIN Held(s) : DescHash(Held(s)[i]) = h]

InitParties(stage) ==
    /\ Pin = [s \in Servers |-> LinkedPin]
    /\ Public = [s \in Servers |-> LinkedKey]
    /\ Finals = [s \in Servers |-> HeldMap(s)]
    /\ mergeMetas = [s \in Servers |-> HeldMap(s)]
    /\ syncMetas = [s \in Servers |-> HeldMap(s)]
    /\ fsHeap = [s \in Servers |->
                    [i \in DOMAIN Held(s) |-> HeldFinal(s, Held(s)[i], stage)]]
    /\ mmHeap = [s \in Servers |->
                    [i \in DOMAIN Held(s) |-> NewMergeMeta(DescHash(Held(s)[i]), i)]]
    /\ smHeap = [s \in Servers |-> [i \in DOMAIN Held(s) |-> NewSyncMeta]]
    /\ storage = [s \in Servers |->
                    [avail |-> TRUE, Pin |-> LinkedPin, Public |-> LinkedKey,
                     Finals |-> [h \in DOMAIN HeldMap(s) |->
                                   HeldSaved(s, Held(s)[HeldMap(s)[h]], stage)]]]
    /\ alive = [s \in Servers |-> TRUE]
    /\ queue = [p \in Servers \X Servers |-> <<>>]
    /\ fin = [s \in Servers |-> IdleTask]
    /\ bft = [s \in Servers |-> IdleRound]
    /\ prop = {}
    /\ ret = NoReply
    /\ calls = NoCalls
    /\ mrg = [k \in MergeSlots |-> IdleMerge]

\* The conode-to-conode handlers and the steps of a running MergeRequest.
MergeSteps ==
    \/ \E k \in MergeSlots : MergeEnter(k)
    \/ \E k \in MergeSlots : MergeReply(k)
    \/ \E k \in MergeSlots : MergeWait(k)
    \/ \E m \in Servers, c \in Servers : MergeConfig(m, c)
    \/ \E s \in Servers, m \in Servers : MergeConfigReply(s, m)
    \/ \E m \in Servers, c \in Servers : MergeCheck(m, c)
    \/ \E s \in Servers, m \in Servers : MergeCheckReply(s, m)
    \/ \E k \in MergeSlots, m \in Servers : MergeBftVerify(k, m)
    \/ \E k \in MergeSlots : MergeSignatureDone(k)
    \/ \E m \in Servers : \E msg \in prop : PropagateFinal(m, msg)
    \/ \E k \in MergeSlots : MergeDone(k)

\* ------------------------------------------------------------------------
\* "org merge" on the finalized parties
\* ------------------------------------------------------------------------
MergeServers == {"s1", "s3"}
MergeIDs == {DescHash(PdA), DescHash(PdB)}

InitMerge == InitParties("final")

NextMerge ==
    \/ \E s \in MergeServers, id \in MergeIDs :
          MergeRequest(s, id, SignSchnorr(LinkedKey, id))
    \/ MergeSteps
    \/ \E k \in MergeSlots : MergeTimeout(k)
    \/ \E k \in MergeSlots : MergeSignTimeout(k)

SpecMerge == InitMerge /\ [][NextMerge]_vars

\* ------------------------------------------------------------------------
\* "org final" of party B and FetchFinal
\* ------------------------------------------------------------------------
\* Party A is finalized and party B is half-way; the organizer finalizes B
\* at one of its conodes and fetches statements.
NextFetch ==
    \/ \E s \in Range(RosterB) :
          FinalizeRequest(s, DescHash(PdB), AttsB,
                          SignSchnorr(LinkedKey, RequestHash(DescHash(PdB), AttsB)))
    \/ \E s \in Servers : FinalizeReply(s)
    \/ \E m \in Servers, c \in Servers : CheckConfig(m, c)
    \/ \E s \in Servers, m \in Servers : CheckConfigReply(s, m)
    \/ \E root \in Servers, m \in Servers : BftVerify(root, m)
    \/ \E root \in Servers : SignatureDone(root)
    \/ \E m \in Servers : \E msg \in prop : PropagateFinal(m, msg)
    \/ \E s \in Servers : FinalizeDone(s)
    \/ \E s \in Servers, id \in MergeIDs : FetchFinal(s, id)

SpecFetch == InitParties("half") /\ [][NextFetch]_vars

\* ------------------------------------------------------------------------
\* "org merge" tried before the sibling party is finalized, and tried again
\* ------------------------------------------------------------------------
\* The organizer of party A merges at s1 at any time.  It repeats the
\* request when the last reply it got is the Merge or Timeout error of its
\* MergeRequest, once every conode is up and holds a signed statement that
\* verifies for each of its parties and no finalize handler is running.
MergeFirst ==
    /\ calls.merge = 0
    /\ MergeRequest("s1", DescHash(PdA), SignSchnorr(LinkedKey, DescHash(PdA)))

MergeAgain ==
    /\ calls.merge > 0
    /\ ret.at = "s1" /\ ret.op = "MergeRequest" /\ ret.outcome = "error"
    /\ ret.code \in {ErrorMerge, ErrorTimeout}
    /\ \A s \in Servers :
          /\ alive[s] /\ fin[s].pc = "idle"
          /\ \A h \in DOMAIN Finals[s] :
                FinalAt(s, h).Signature.len > 0 /\ Verify(FinalAt(s, h))
    /\ MergeRequest("s1", DescHash(PdA), SignSchnorr(LinkedKey, DescHash(PdA)))

\* The organizer of party B finalizes it once, at s2.
FinalizeSibling ==
    /\ calls.final = 0
    /\ FinalizeRequest("s2", DescHash(PdB), AttsB,
                       SignSchnorr(LinkedKey, RequestHash(DescHash(PdB), AttsB)))

NextRetry ==
    \/ FinalizeSibling
    \/ \E s \in Servers : FinalizeReply(s)
    \/ \E m \in Servers, c \in Servers : CheckConfig(m, c)
    \/ \E s \in Servers, m \in Servers : CheckConfigReply(s, m)
    \/ \E root \in Servers, m \in Servers : BftVerify(root, m)
    \/ \E root \in Servers : SignatureDone(root)
    \/ \E s \in Servers : FinalizeDone(s)
    \/ MergeFirst
    \/ MergeAgain
    \/ MergeSteps

SpecRetry == InitParties("half") /\ [][NextRetry]_vars

\* ------------------------------------------------------------------------
\* "org final" with a list that names a key twice
\* ------------------------------------------------------------------------
\* The organizer of party B sends the scanned keys as they are; one list
\* holds a key twice.

NextTwice ==
    \/ \E s \in Range(RosterB), atts \in {AttsB, <<"k2", "k2", "k1">>} :
          FinalizeRequest(s, DescHash(PdB), atts,
                          SignSchnorr(LinkedKey, RequestHash(DescHash(PdB), atts)))
    \/ \E s \in Servers : FinalizeReply(s)
    \/ \E m \in Servers, c \in Servers : CheckConfig(m, c)
    \/ \E s \in Servers, m \in Servers : CheckConfigReply(s, m)
    \/ \E root \in Servers, m \in Servers : BftVerify(root, m)
    \/ \E root \in Servers : SignatureDone(root)
    \/ \E m \in Servers : \E msg \in prop : PropagateFinal(m, msg)
    \/ \E s \in Servers : FinalizeDone(s)

SpecTwice == InitParties("half") /\ [][NextTwice]_vars

\* ------------------------------------------------------------------------
\* "org merge" in every state of the organizer's work
\* ------------------------------------------------------------------------
\* Parties that cannot be merged: one names a single sibling, one names
\* siblings none of which has its roster, one names no sibling at all.
PdOne == PopDesc("partyOne", "cityA", NewRoster(RosterA), <<ShortDesc("cityA", RosterA)>>)
PdOdd == PopDesc("partyOdd", "cityA", NewRoster(RosterA),
                 <<ShortDesc("cityB", RosterB), ShortDesc("cityX", RosterX)>>)

Unmergeable(s) == IF s \in Range(RosterA) THEN <<PdOne, PdOdd, PdX>> ELSE <<PdX>>

\* The conodes after "org config" and "org final" of these parties:
\* StoreConfig made a mergeMeta only for a description that names siblings.
InitUnmergeable ==
    LET UnmergeableMap(s) ==
            [h \in {DescHash(Unmergeable(s)[i]) : i \in DOMAIN Unmergeable(s)} |->
                CHOOSE i \in DOMAIN Unmergeable(s) : DescHash(Unmergeable(s)[i]) = h]
    IN
    /\ Pin = [s \in Servers |-> LinkedPin]
    /\ Public = [s \in Servers |-> LinkedKey]
    /\ Finals = [s \in Servers |-> UnmergeableMap(s)]
    /\ mergeMetas = [s \in Servers |->
          Restrict(UnmergeableMap(s),
                   {DescHash(Unmergeable(s)[i]) :
                       i \in {j \in DOMAIN Unmergeable(s) :
                                 Len(Unmergeable(s)[j].Parties) > 0}})]
    /\ syncMetas = [s \in Servers |-> UnmergeableMap(s)]
    /\ fsHeap = [s \in Servers |->
          [i \in DOMAIN Unmergeable(s) |->
              SignedStatement(Unmergeable(s)[i], AttsA, "s1")]]
    /\ mmHeap = [s \in Servers |->
          [i \in {j \in DOMAIN Unmergeable(s) : Len(Unmergeable(s)[j].Parties) > 0} |->
              NewMergeMeta(DescHash(Unmergeable(s)[i]), i)]]
    /\ smHeap = [s \in Servers |-> [i \in DOMAIN Unmergeable(s) |-> NewSyncMeta]]
    /\ storage = [s \in Servers |->
          [avail |-> TRUE, Pin |-> LinkedPin, Public |-> LinkedKey,
           Finals |-> [h \in DOMAIN UnmergeableMap(s) |->
                         SignedStatement(Unmergeable(s)[UnmergeableMap(s)[h]],
                                         AttsA, "s1")]]]
    /\ alive = [s \in Servers |-> TRUE]
    /\ queue = [p \in Servers \X Servers |-> <<>>]
    /\ fin = [s \in Servers |-> IdleTask]
    /\ bft = [s \in Servers |-> IdleRound]
    /\ prop = {}
    /\ ret = NoReply
    /\ calls = NoCalls
    /\ mrg = [k \in MergeSlots |-> IdleMerge]

\* The organizer asks for a merge at any point of the work: before the
\* conodes are linked, before party B is finalized, after both parties are
\* finalized, or for a party that cannot be merged; the request is signed
\* with the linked key or with another one.  A conode may restart.
RequestIDs == MergeIDs \cup {DescHash(PdOne), DescHash(PdOdd), DescHash(PdX)}

InitRequest ==
    \/ Init
    \/ InitParties("half")
    \/ InitParties("final")
    \/ InitUnmergeable

NextRequest ==
    \/ \E s \in MergeServers, id \in RequestIDs, k \in OrgKeys :
          MergeRequest(s, id, SignSchnorr(k, id))
    \/ \E s \in Servers : Restart(s)
    \/ MergeSteps
    \/ \E k \in MergeSlots : MergeTimeout(k)
    \/ \E k \in MergeSlots : MergeSignTimeout(k)

SpecRequest == InitRequest /\ [][NextRequest]_vars

\* ------------------------------------------------------------------------
\* "org final" of a party on three conodes that hold different lists
\* ------------------------------------------------------------------------
\* Party X is stored at s1, s2 and s3.  A FinalizeRequest at s2 with
\* [k1, k2] and one at s3 with [k1] have both ended with
\* OtherFinalsPending, because s1, the first conode they asked, had no
\* attendees: s2 and s3 keep the lists they were given.
InitThree ==
    LET HeldAttendees(s) == CASE s = "s1" -> <<>>
                              [] s = "s2" -> <<"k1", "k2">>
                              [] s = "s3" -> <<"k1">>
    IN
    /\ Pin = [s \in Servers |-> LinkedPin]
    /\ Public = [s \in Servers |-> LinkedKey]
    /\ Finals = [s \in Servers |-> Put(EmptyMap, DescHash(PdX), 1)]
    /\ mergeMetas = [s \in Servers |-> EmptyMap]
    /\ syncMetas = [s \in Servers |-> Put(EmptyMap, DescHash(PdX), 1)]
    /\ fsHeap = [s \in Servers |->
          Put(EmptyMap, 1, [NewFinalStatement(PdX) EXCEPT !.Attendees = HeldAttendees(s)])]
    /\ mmHeap = [s \in Servers |-> EmptyMap]
    /\ smHeap = [s \in Servers |-> Put(EmptyMap, 1, NewSyncMeta)]
    /\ storage = [s \in Servers |->
          [avail |-> TRUE, Pin |-> LinkedPin, Public |-> LinkedKey,
           Finals |-> Put(EmptyMap, DescHash(PdX), NewFinalStatement(PdX))]]
    /\ alive = [s \in Servers |-> TRUE]
    /\ queue = [p \in Servers \X Servers |-> <<>>]
    /\ fin = [s \in Servers |-> IdleTask]
    /\ bft = [s \in Servers |-> IdleRound]
    /\ prop = {}
    /\ ret = NoReply
    /\ calls = NoCalls
    /\ mrg = [k \in MergeSlots |-> IdleMerge]

NextThree ==
    \/ \E s \in Servers, atts \in AttLists :
          FinalizeRequest(s, DescHash(PdX), atts,
                          SignSchnorr(LinkedKey, RequestHash(DescHash(PdX), atts)))
    \/ \E s \in Servers : FinalizeReply(s)
    \/ \E m \in Servers, c \in Servers : CheckConfig(m, c)
    \/ \E s \in Servers, m \in Servers : CheckConfigReply(s, m)
    \/ \E root \in Servers, m \in Servers : BftVerify(root, m)
    \/ \E root \in Servers : SignatureDone(root)
    \/ \E m \in Servers : \E msg \in prop : PropagateFinal(m, msg)
    \/ \E s \in Servers : FinalizeDone(s)

SpecThree == InitThree /\ [][NextThree]_vars

\* ------------------------------------------------------------------------
\* "org config" and "org final" of a party that names one sibling
\* ------------------------------------------------------------------------
\* The organizer stores the description of a party that lists a single
\* sibling party (itself) at the conodes of its roster and finalizes it.
NextOne ==
    \/ \E s \in Range(RosterA) :
          StoreConfig(s, PdOne, SignSchnorr(LinkedKey, DescHash(PdOne)))
    \/ \E s \in Range(RosterA), atts \in AttLists :
          FinalizeRequest(s, DescHash(PdOne), atts,
                          SignSchnorr(LinkedKey, RequestHash(DescHash(PdOne), atts)))
    \/ \E s \in Servers : FinalizeReply(s)
    \/ \E m \in Servers, c \in Servers : CheckConfig(m, c)
    \/ \E s \in Servers, m \in Servers : CheckConfigReply(s, m)
    \/ \E root \in Servers, m \in Servers : BftVerify(root, m)
    \/ \E root \in Servers : SignatureDone(root)
    \/ \E s \in Servers : FinalizeDone(s)

SpecOne == InitLinked /\ [][NextOne]_vars

\* ------------------------------------------------------------------------
\* Replies delivered by two connections at once
\* ------------------------------------------------------------------------
\* The handlers of messages from different conodes run in different
\* goroutines, and MergeConfigReply takes no lock: between its test of
\* len(mcChannel) (line 492) and its send (line 493) another delivery may
\* run.  The handler up to the test (lines 465-492): the message it works
\* on stays at the head of its connection, marked with the reply and the
\* syncMeta the handler holds, until the send is done.
MergeConfigReplyTest(s, m) ==
    /\ alive[s]
    /\ queue[<<m, s>>] # <<>>
    /\ Head(queue[<<m, s>>]).type = "MergeConfigReply"
    /\ LET mcrVal == Head(queue[<<m, s>>])
           mcr == IF ~Has(Finals[s], mcrVal.PopHash) THEN NilMergeReply
                  ELSE IF mcrVal.PopStatus < PopStatusOK
                  THEN SomeMergeReply(mcrVal.PopStatus, mcrVal.PopHash, mcrVal.Final)
                  ELSE IF mcrVal.Final = <<>> THEN NilMergeReply
                  ELSE SomeMergeReply(
                          VerifyMergeStatement(FinalAt(s, mcrVal.PopHash),
                                               mcrVal.Final[1]),
                          mcrVal.PopHash, mcrVal.Final)
       IN  queue' = [queue EXCEPT ![<<m, s>>] =
              IF /\ Has(syncMetas[s], mcrVal.PopHash)
                 /\ Len(smHeap[s][syncMetas[s][mcrVal.PopHash]].mcChannel) = 0
              THEN <<[type |-> "mcChannel <- mcr", mcr |-> mcr,
                      syncData |-> syncMetas[s][mcrVal.PopHash]]>> \o Tail(@)
              ELSE Tail(@)]
    /\ UNCHANGED <<serverData, alive, fin, bft, prop, ret, calls, mrg>>

\* The send of line 493: it goes through when the channel has room, and
\* blocks the handler and its connection as long as the slot is taken.
MergeConfigReplySend(s, m) ==
    /\ alive[s]
    /\ queue[<<m, s>>] # <<>>
    /\ Head(queue[<<m, s>>]).type = "mcChannel <- mcr"
    /\ LET h == Head(queue[<<m, s>>])
       IN  /\ Len(smHeap[s][h.syncData].mcChannel) = 0
           /\ smHeap' = [smHeap EXCEPT ![s][h.syncData].mcChannel = <<h.mcr>>]
           /\ queue' = [queue EXCEPT ![<<m, s>>] = Tail(@)]
    /\ UNCHANGED <<Pin, Public, Finals, mergeMetas, syncMetas, fsHeap, mmHeap,
                   storage, alive, fin, bft, prop, ret, calls, mrg>>

\* The conodes after "org config" and "org final" of party A, before any
\* conode has party B: every conode asked for B refuses, and Merge asks
\* the next one.
InitAlone ==
    LET held(s, x) == IF s \in Range(RosterA) THEN x ELSE <<>>
        final == SignedStatement(PdA, AttsA, "s1")
    IN
    /\ Pin = [s \in Servers |-> LinkedPin]
    /\ Public = [s \in Servers |-> LinkedKey]
    /\ Finals = [s \in Servers |-> held(s, Put(EmptyMap, DescHash(PdA), 1))]
    /\ mergeMetas = [s \in Servers |-> held(s, Put(EmptyMap, DescHash(PdA), 1))]
    /\ syncMetas = [s \in Servers |-> held(s, Put(EmptyMap, DescHash(PdA), 1))]
    /\ fsHeap = [s \in Servers |-> held(s, <<final>>)]
    /\ mmHeap = [s \in Servers |-> held(s, <<NewMergeMeta(DescHash(PdA), 1)>>)]
    /\ smHeap = [s \in Servers |-> held(s, <<NewSyncMeta>>)]
    /\ storage = [s \in Servers |->
          [avail |-> TRUE, Pin |-> LinkedPin, Public |-> LinkedKey,
           Finals |-> held(s, Put(EmptyMap, DescHash(PdA), final))]]
    /\ alive = [s \in Servers |-> TRUE]
    /\ queue = [p \in Servers \X Servers |-> <<>>]
    /\ fin = [s \in Servers |-> IdleTask]
    /\ bft = [s \in Servers |-> IdleRound]
    /\ prop = {}
    /\ ret = NoReply
    /\ calls = NoCalls
    /\ mrg = [k \in MergeSlots |-> IdleMerge]

NextDeliver ==
    \/ \E s \in Range(RosterA) :
          MergeRequest(s, DescHash(PdA), SignSchnorr(LinkedKey, DescHash(PdA)))
    \/ \E k \in MergeSlots : MergeEnter(k)
    \/ \E k \in MergeSlots : MergeReply(k)
    \/ \E m \in Servers, c \in Servers : MergeConfig(m, c)
    \/ \E s \in Servers, m \in Servers : MergeConfigReplyTest(s, m)
    \/ \E s \in Servers, m \in Servers : MergeConfigReplySend(s, m)

SpecDeliver == InitAlone /\ [][NextDeliver]_vars

\* ------------------------------------------------------------------------
\* Properties of the link manager and of StoreConfig
\* ------------------------------------------------------------------------
\* C6: a successful StoreConfig(PD) leaves under H(PD) a final statement
\* holding PD with no attendees and no signature, a fresh syncMeta for
\* H(PD), a mergeMeta whose statementsMap is exactly H(PD) -> that
\* statement if and only if PD lists sibling parties, and replies H(PD).
C6_StoreConfigEffects ==
    [][\A s \in Servers, desc \in StoreDescs : \A sig \in StoreSigs(desc) :
        (StoreConfig(s, desc, sig) /\ ret'.outcome = "ok") =>
            LET h == DescHash(desc) IN
            /\ ret' = ReplyOk(s, "StoreConfig", h, <<>>)
            /\ Has(Finals'[s], h)
            /\ fsHeap'[s][Finals'[s][h]].Desc = desc
            /\ fsHeap'[s][Finals'[s][h]].Attendees = <<>>
            /\ fsHeap'[s][Finals'[s][h]].Signature.len = 0
            /\ Has(syncMetas'[s], h)
            /\ smHeap'[s][syncMetas'[s][h]] = NewSyncMeta
            /\ (Len(desc.Parties) > 0) <=> Has(mergeMetas'[s], h)
            /\ Has(mergeMetas'[s], h) =>
                 /\ DOMAIN mmHeap'[s][mergeMetas'[s][h]].statementsMap = {h}
                 /\ mmHeap'[s][mergeMetas'[s][h]].statementsMap[h] = Finals'[s][h]
    ]_vars

\* A StoreConfig of a party with siblings succeeded at a conode that
\* already held another party.
C6_Witness ==
    /\ ret.op = "StoreConfig" /\ ret.outcome = "ok"
    /\ ret.ID = DescHash(PdA)
    /\ Has(mergeMetas[ret.at], ret.ID)
    /\ Has(Finals[ret.at], DescHash(PdX))
    /\ ~Has(mergeMetas[ret.at], DescHash(PdX))

\* C7: StoreConfig replies Internal and leaves Finals, mergeMetas and
\* syncMetas as they were when the description has no roster, when no
\* organizer key is linked, or when the signature is not one of the linked
\* key over H(PD).
C7_StoreConfigRejects ==
    [][\A s \in Servers, desc \in StoreDescs : \A sig \in StoreSigs(desc) :
        (/\ StoreConfig(s, desc, sig)
         /\ \/ desc.Roster.nil
            \/ Public[s] = NoKey
            \/ ~VerifySchnorr(Public[s], DescHash(desc), sig)) =>
            /\ ret' = ReplyError(s, "StoreConfig", ErrorInternal)
            /\ UNCHANGED <<Finals, mergeMetas, syncMetas>>
    ]_vars

\* C9: the linked key changes only in a PinRequest whose pin is not empty
\* and equals the held Pin; a PinRequest with an empty or a different pin
\* replies WrongPIN and leaves the key; no key is linked while no PIN is held.
C9_PublicOnlyByHeldPin ==
    [][\A s \in Servers :
        /\ Public'[s] # Public[s] =>
             \E pin \in ReqPins \ {""}, pub \in OrgKeys :
                 pin = Pin[s] /\ PinRequest(s, pin, pub)
        /\ \A pin \in ReqPins, pub \in OrgKeys :
             (PinRequest(s, pin, pub) /\ (pin = "" \/ pin # Pin[s])) =>
                 /\ ret' = ReplyError(s, "PinRequest", ErrorWrongPIN)
                 /\ Public'[s] = Public[s]
        /\ Public'[s] # NoKey => Pin'[s] # ""
    ]_vars

\* An organizer was refused with a wrong pin at a conode that holds a PIN
\* and a key linked with it.
C9_Witness ==
    /\ ret.op = "PinRequest" /\ ret.outcome = "error"
    /\ Public[ret.at] # NoKey
    /\ Pin[ret.at] # ""

Stored(s) == {fsHeap[s][Finals[s][h]] : h \in DOMAIN Finals[s]}
Authorized(s, id, atts, sig) ==
    Public[s] # NoKey /\ VerifySchnorr(Public[s], RequestHash(id, atts), sig)

\* C1: at every conode, every stored final statement with a non-empty
\* signature verifies over its current hash under the aggregate key of its
\* current roster.
C1_SignatureSoundness ==
    \A s \in Servers : \A fs \in Stored(s) : fs.Signature.len > 0 => Verify(fs)

\* C2: when FinalizeRequest succeeds after signing, the signature of the
\* statement it returns verifies and its attendees are attendees of the
\* request (the intersection of the request's list with the peers' lists).
C2_FinalizeReturnsSigned ==
    [][\A s \in Servers :
        FinalizeDone(s) =>
            /\ Verify(ret'.Final[1])
            /\ Range(ret'.Final[1].Attendees) \subseteq Range(fin[s].Attendees)
    ]_vars

\* C3: an authorized FinalizeRequest for a party whose stored statement
\* verifies replies with that statement and changes nothing: no attendee
\* list is replaced, no CheckConfig is sent, no signing round starts, nothing
\* is propagated and no handler stays behind.
C3_FinalizeKnownIsIdempotent ==
    [][\A s \in Servers, id \in FinalizeIDs, atts \in AttLists :
       \A sig \in FinalizeSigs(id, atts) :
        (/\ FinalizeRequest(s, id, atts, sig)
         /\ Authorized(s, id, atts, sig)
         /\ Has(Finals[s], id)
         /\ Verify(FinalAt(s, id))) =>
            /\ ret' = ReplyOk(s, "FinalizeRequest", <<>>, <<FinalAt(s, id)>>)
            /\ UNCHANGED <<serverData, queue, bft, prop, fin, alive>>
    ]_vars

\* A conode replied to a FinalizeRequest with a verifying statement signed
\* in a round rooted at another conode, which it got by propagation: it
\* did not sign it in this request, and no handler of its own is running.
C3_Witness ==
    /\ ret.op = "FinalizeRequest" /\ ret.outcome = "ok"
    /\ Verify(ret.Final[1])
    /\ ret.Final[1].Signature.by # ret.at
    /\ fin[ret.at].pc = "idle"
    /\ calls.final = MaxFinalizeRequest

\* C4: when FinalizeRequest has succeeded at a conode of the roster and
\* every propagated statement has been delivered, FetchFinal for the party
\* at every conode of the roster gives a statement equal to the returned one.
C4_FetchAfterPropagation ==
    (/\ ret.op = "FinalizeRequest" /\ ret.outcome = "ok"
     /\ ret.at \in Range(ret.Final[1].Desc.Roster.List)
     /\ prop = {}) =>
        \A m \in Range(ret.Final[1].Desc.Roster.List) :
            FetchFinalReply(m, DescHash(ret.Final[1].Desc)) =
                ReplyOk(m, "FetchFinal", <<>>, ret.Final)

\* C5: a signing round starts at a conode only if every other conode of the
\* roster holds the party; an authorized FinalizeRequest at a conode that
\* lacks the party replies Internal; and a FinalizeRequest that ends while
\* another conode of the roster lacks the party replies OtherFinalsPending
\* and leaves no signature.
C5_SignOnlyIfAllHold ==
    [][\A s \in Servers :
        /\ (~bft[s].active /\ bft'[s].active) =>
              \A m \in Range(bft'[s].tree) \ {s} : Has(Finals[m], fin'[s].DescID)
        /\ \A id \in FinalizeIDs, atts \in AttLists :
           \A sig \in FinalizeSigs(id, atts) :
              (/\ FinalizeRequest(s, id, atts, sig)
               /\ Authorized(s, id, atts, sig)
               /\ ~Has(Finals[s], id)) =>
                  ret' = ReplyError(s, "FinalizeRequest", ErrorInternal)
        /\ (/\ fin[s].pc # "idle" /\ fin'[s].pc = "idle"
            /\ \E m \in Range(fin[s].roster) \ {s} : ~Has(Finals[m], fin[s].DescID)) =>
              /\ ret' = ReplyError(s, "FinalizeRequest", ErrorOtherFinals)
              /\ fsHeap'[s][fin[s].final].Signature.len = 0
    ]_vars

\* C8: a StoreConfig with the description of a party whose stored statement
\* is signed leaves that statement, and FetchFinal still gives it.
C8_StoreConfigKeepsSigned ==
    [][\A s \in Servers, desc \in PartyDescs :
        (/\ StoreConfig(s, desc, SignSchnorr(LinkedKey, DescHash(desc)))
         /\ Has(Finals[s], DescHash(desc))
         /\ Verify(FinalAt(s, DescHash(desc)))) =>
            /\ FinalAt(s, DescHash(desc))' = FinalAt(s, DescHash(desc))
            /\ FetchFinalReply(s, DescHash(desc))' =
                  ReplyOk(s, "FetchFinal", <<>>, <<FinalAt(s, DescHash(desc))>>)
    ]_vars

\* C20: for each party at each conode, once a finalize round has given the
\* stored statement attendees, no later step makes their number larger,
\* also not a FinalizeRequest issued again after an earlier one ended with
\* OtherFinalsPending.
C20_AttendeesNeverGrow ==
    [][\A s \in Servers : \A h \in DOMAIN Finals[s] \cap DOMAIN Finals'[s] :
        Len(FinalAt(s, h).Attendees) > 0 =>
            Len(FinalAt(s, h)'.Attendees) <= Len(FinalAt(s, h).Attendees)
    ]_vars

\* ------------------------------------------------------------------------
\* Properties of the merge
\* ------------------------------------------------------------------------
\* The MergeRequest handlers at conode s, working on mergeMeta mid, that are
\* in the MergeConfig round or in the MergeCheck broadcast.
InMergeRound(s, mid) ==
    {k \in MergeSlots : mrg[k].at = s /\ mrg[k].meta = mid /\ mrg[k].pc \in {"mc", "wg"}}

\* C16: at each conode and for each party, at most one MergeRequest handler
\* is in the MergeConfig round or the MergeCheck broadcast at any time, also
\* when two MergeRequests are handled concurrently.
C16_OneMergeRound ==
    \A s \in Servers : \A mid \in DOMAIN mmHeap[s] :
        Cardinality(InMergeRound(s, mid)) <= 1

\* C17: a MergeRequest that passes the checks of the request and finds the
\* party's distrib flag set changes no final statement, starts no
\* collective signing and propagates nothing.
C17_DistribSetIsNoOp ==
    [][\A s \in MergeServers, id \in MergeIDs :
        (/\ MergeRequest(s, id, SignSchnorr(LinkedKey, id))
         /\ Has(mergeMetas[s], id)
         /\ mmHeap[s][mergeMetas[s][id]].distrib) =>
            /\ fsHeap' = fsHeap
            /\ \A k \in MergeSlots : ~mrg'[k].round.active
            /\ prop' = prop
    ]_vars

\* C18: every MergeRequest that replies with a final statement replies with
\* one that is marked merged and holds the attendees of all sibling parties.
C18_SuccessIsMerged ==
    (ret.op = "MergeRequest" /\ ret.outcome = "ok") =>
        /\ ret.Final[1].Merged
        /\ Range(AttsA) \cup Range(AttsB) \subseteq Range(ret.Final[1].Attendees)

\* seq lists the members of S once each, in ascending order.
SortedListOf(seq, S) ==
    /\ Range(seq) = S
    /\ Len(seq) = Cardinality(S)
    /\ \A i, j \in DOMAIN seq : i < j => StringRank(seq[i]) < StringRank(seq[j])

\* What the merge of parties A and B has to give.
MergedOfAB(f) ==
    /\ SortedListOf(f.Attendees, Range(AttsA) \cup Range(AttsB))
    /\ SortedListOf(f.Desc.Roster.List, Range(RosterA) \cup Range(RosterB))
    /\ f.Desc.Location = "cityA" \o DELIMETER \o "cityB"
    /\ f.Merged

\* C12: a MergeRequest that went through the whole of Merge (it waited on
\* mcGroup and united the statements) replies with a statement whose
\* attendees are the union of the siblings' attendees, each once, sorted,
\* whose roster is the sorted union of the siblings' rosters, whose location
\* is the siblings' locations sorted and joined with "; ", that is marked
\* merged, and whose signature verifies under the union roster.
C12_MergedStatement ==
    [][\A k \in MergeSlots :
        (mrg[k].wg # 0 /\ MergeDone(k)) =>
            /\ MergedOfAB(ret'.Final[1])
            /\ Verify(ret'.Final[1])
    ]_vars

\* A MergeRequest has replied with a merged statement, the propagation is
\* delivered, no message is in flight and no handler is running.
MergeSettled ==
    /\ ret.op = "MergeRequest" /\ ret.outcome = "ok"
    /\ ret.Final[1].Merged
    /\ prop = {}
    /\ \A p \in Servers \X Servers : queue[p] = <<>>
    /\ \A k \in MergeSlots : mrg[k].pc = "idle"
    /\ \A s \in Servers : alive[s] /\ fin[s].pc = "idle"

\* The hash of the merged party the MergeRequest replied with.
MergedHash == DescHash(ret.Final[1].Desc)

\* C13: once a MergeRequest has succeeded and the propagation is delivered,
\* every conode of every sibling roster holds, under the hash of the merged
\* party, the same final statement.
C13_MergedStatementEverywhere ==
    MergeSettled =>
        \A s \in Servers :
            /\ Has(Finals[s], MergedHash)
            /\ FinalAt(s, MergedHash) = FinalAt(ret.at, MergedHash)

\* C14: after the merge every participating conode holds the merged
\* statement under the hash of the merged party, and each hash of a sibling
\* party it held before names that very same statement (or is gone), also
\* on a conode that serves two sibling parties.
C14_OldHashesNameMerged ==
    MergeSettled =>
        \A s \in Servers :
            /\ Has(Finals[s], MergedHash)
            /\ \A h \in MergeIDs :
                  Has(Finals[s], h) => Finals[s][h] = Finals[s][MergedHash]

\* C15: after a MergeRequest has succeeded, FetchFinal at each participating
\* conode, under the hash of each sibling party the conode stored, replies
\* with a statement whose signature verifies and that holds the attendees of
\* all sibling parties, also when the rosters overlap.
C15_FetchAfterMerge ==
    MergeSettled =>
        \A s \in Servers : \A h \in DOMAIN HeldMap(s) :
            /\ FetchFinalReply(s, h).outcome = "ok"
            /\ Verify(FetchFinalReply(s, h).Final[1])
            /\ Range(AttsA) \cup Range(AttsB) \subseteq
                   Range(FetchFinalReply(s, h).Final[1].Attendees)

\* ------------------------------------------------------------------------
\* Properties of FetchFinal
\* ------------------------------------------------------------------------
\* C11: FetchFinal changes nothing a conode holds or has saved, sends
\* nothing and touches no running handler; it replies Internal when the
\* conode has no statement under the hash, OtherFinalsPending when that
\* statement's signature is empty, and the stored statement otherwise.
C11_FetchFinalReadsOnly ==
    [][\A s \in Servers, id \in MergeIDs :
        FetchFinal(s, id) =>
            /\ UNCHANGED <<serverData, alive, queue, fin, bft, prop, mrg>>
            /\ ret'.at = s /\ ret'.op = "FetchFinal"
            /\ IF id \notin DOMAIN Finals[s]
               THEN ret'.outcome = "error" /\ ret'.code = ErrorInternal
               ELSE IF FinalAt(s, id).Signature = EmptySig
               THEN ret'.outcome = "error" /\ ret'.code = ErrorOtherFinals
               ELSE ret'.outcome = "ok" /\ ret'.Final = <<FinalAt(s, id)>>
    ]_vars

\* FetchFinal has returned the statement of party B, which was finalized
\* after the conodes started.
C11_Witness ==
    /\ ret.op = "FetchFinal" /\ ret.outcome = "ok"
    /\ DescHash(ret.Final[1].Desc) = DescHash(PdB)
    /\ ret.Final[1] = FinalAt(ret.at, DescHash(PdB))
    /\ Verify(ret.Final[1])

\* ------------------------------------------------------------------------
\* Properties of a repeated MergeRequest
\* ------------------------------------------------------------------------
\* C19: after a MergeRequest for party A at s1 failed with Merge or Timeout,
\* a second MergeRequest for A at s1, issued when every sibling is finalized
\* and every conode is up, replies with the merged final statement: every
\* reply it gives is a success and carries the statement merged from A and
\* B, with a signature that verifies.
C19_RetryReturnsMerged ==
    [][(/\ calls.merge = 2
        /\ ret' # ret
        /\ ret'.op = "MergeRequest") =>
            /\ ret'.outcome = "ok"
            /\ MergedOfAB(ret'.Final[1])
            /\ Verify(ret'.Final[1])
    ]_vars

\* ------------------------------------------------------------------------
\* Properties of the map of parties
\* ------------------------------------------------------------------------
\* C21: a hash becomes a key of Finals at a conode only in a step in which
\* StoreConfig succeeds at that conode for a description with that hash.
C21_KeysOnlyByStoreConfig ==
    [][\A s \in Servers : \A h \in DOMAIN Finals'[s] \ DOMAIN Finals[s] :
          ret' = ReplyOk(s, "StoreConfig", h, <<>>)
    ]_vars

\* C21, amended: a hash becomes a key of Finals at a conode only when
\* StoreConfig succeeds there for it, or when Merge or MergeCheck has united
\* a statement the conode already held under another key: then the new key
\* is the hash of the united description and names that same statement,
\* which is marked merged.
C21_KeysByStoreConfigOrMerge ==
    [][\A s \in Servers : \A h \in DOMAIN Finals'[s] \ DOMAIN Finals[s] :
          \/ ret' = ReplyOk(s, "StoreConfig", h, <<>>)
          \/ /\ \E h0 \in DOMAIN Finals[s] : Finals[s][h0] = Finals'[s][h]
             /\ h = DescHash(fsHeap'[s][Finals'[s][h]].Desc)
             /\ fsHeap'[s][Finals'[s][h]].Merged
    ]_vars

\* A conode holds a key StoreConfig never stored: the merged party's.
C21_Witness ==
    \E s \in Servers : \E h \in DOMAIN Finals[s] :
        /\ h \notin DOMAIN HeldMap(s)
        /\ \E h0 \in DOMAIN HeldMap(s) : Has(Finals[s], h0) /\ Finals[s][h0] = Finals[s][h]

\* ------------------------------------------------------------------------
\* Properties of the waits
\* ------------------------------------------------------------------------
\* C22: a MergeRequest handler on a live conode never waits without end
\* for the acknowledgements of its MergeCheck messages: while it waits on
\* mcGroup with a counter above zero, a MergeCheck of its conode is still
\* to be handled by a live conode or a MergeCheckReply is on its way (the
\* wait has no timeout that could end it otherwise).
C22_NoWaitWithoutEnd ==
    \A k \in MergeSlots :
        (/\ mrg[k].pc = "wg" /\ alive[mrg[k].at]
         /\ smHeap[mrg[k].at][mrg[k].wg].mcGroup > 0) =>
            \E x \in Servers :
                \/ /\ alive[x]
                   /\ \E i \in DOMAIN queue[<<mrg[k].at, x>>] :
                         queue[<<mrg[k].at, x>>][i].type = "MergeCheck"
                \/ \E i \in DOMAIN queue[<<x, mrg[k].at>>] :
                      queue[<<x, mrg[k].at>>][i].type = "MergeCheckReply"

\* ------------------------------------------------------------------------
\* Properties of the attendee lists
\* ------------------------------------------------------------------------
\* C23: the attendee list of every final statement a conode holds names no
\* public key twice, whatever lists the FinalizeRequests carried.
C23_NoAttendeeTwice ==
    \A s \in Servers : \A h \in DOMAIN Finals[s] :
        Cardinality(Range(FinalAt(s, h).Attendees)) = Len(FinalAt(s, h).Attendees)

\* ------------------------------------------------------------------------
\* Properties of save and load
\* ------------------------------------------------------------------------
\* C24: after a restart of a conode every hash in Finals has a syncMeta
\* again, and every party whose description lists sibling parties has its
\* mergeMeta, with the statements it recorded before the restart.
C24_MetasAfterRestart ==
    [][\A s \in Servers :
        Restart(s) =>
            \A h \in DOMAIN Finals'[s] :
                /\ Has(syncMetas'[s], h)
                /\ Len(fsHeap'[s][Finals'[s][h]].Desc.Parties) > 0 =>
                      /\ Has(mergeMetas'[s], h)
                      /\ Has(mergeMetas[s], h) =>
                            DOMAIN mmHeap'[s][mergeMetas'[s][h]].statementsMap =
                                DOMAIN mmHeap[s][mergeMetas[s][h]].statementsMap
    ]_vars

\* C25: a restart of a conode puts Pin, Public and the final statements
\* back to what the last save wrote (changes made in memory after it are
\* gone), and a conode that was linked before the restart is linked to the
\* same key after it.
C25_LoadRestoresSaved ==
    [][\A s \in Servers :
        Restart(s) =>
            /\ Pin'[s] = storage[s].Pin
            /\ Public'[s] = storage[s].Public
            /\ DOMAIN Finals'[s] = DOMAIN storage[s].Finals
            /\ \A h \in DOMAIN Finals'[s] :
                  fsHeap'[s][Finals'[s][h]] = storage[s].Finals[h]
            /\ Public[s] # NoKey => Public'[s] = Public[s]
    ]_vars

\* A linked conode that stored a party has restarted: it holds the party
\* and its key again (and no syncMeta, which only StoreConfig makes).
C25_Witness ==
    \E s \in Servers :
        /\ Public[s] # NoKey
        /\ Public[s] = storage[s].Public
        /\ \E h \in DOMAIN Finals[s] : ~Has(syncMetas[s], h)

\* ------------------------------------------------------------------------
\* Properties of the checks of MergeRequest
\* ------------------------------------------------------------------------
\* C26: a MergeRequest replies with an error and starts no merge when the
\* conode is not linked, the signature is not the linked organizer's, the
\* conode has no statement or no mergeMeta under the hash, the statement is
\* not finalized (then the error is OtherFinalsPending), the description
\* names fewer than two siblings, or no sibling has the party's roster; for
\* a statement that is merged and validly signed it replies with that
\* statement and starts no merge either.  (Starting no merge: no message
\* is sent, no statement and no mergeMeta changes, no handler goes on and
\* nothing is signed or saved.)
C26_MergeRequestRefusals ==
    [][\A s \in MergeServers, id \in RequestIDs, k \in OrgKeys :
        LET sig == SignSchnorr(k, id)
            RequestKnown ==
                /\ Public[s] # NoKey
                /\ VerifySchnorr(Public[s], id, sig)
                /\ Has(Finals[s], id)
                /\ Has(mergeMetas[s], id)
            RequestFinalized ==
                FinalAt(s, id).Signature.len > 0 /\ Verify(FinalAt(s, id))
            RequestSiblings ==
                /\ Len(FinalAt(s, id).Desc.Parties) >= 2
                /\ \E i \in DOMAIN FinalAt(s, id).Desc.Parties :
                      Range(FinalAt(s, id).Desc.Parties[i].Roster.List) =
                          Range(FinalAt(s, id).Desc.Roster.List)
            StartsNoMerge ==
                UNCHANGED <<serverData, alive, queue, fin, bft, prop, mrg>>
        IN
        MergeRequest(s, id, sig) =>
            IF ~RequestKnown
            THEN StartsNoMerge /\ ret'.at = s /\ ret'.op = "MergeRequest"
                 /\ ret'.outcome = "error"
            ELSE IF ~RequestFinalized
            THEN StartsNoMerge /\ ret' = ReplyError(s, "MergeRequest", ErrorOtherFinals)
            ELSE IF Len(FinalAt(s, id).Desc.Parties) >= 2 /\ FinalAt(s, id).Merged
            THEN StartsNoMerge /\ ret' = ReplyOk(s, "MergeRequest", <<>>,
                                                  <<FinalAt(s, id)>>)
            ELSE IF ~RequestSiblings
            THEN StartsNoMerge /\ ret'.at = s /\ ret'.op = "MergeRequest"
                 /\ ret'.outcome = "error"
            ELSE TRUE
    ]_vars

\* A MergeRequest for a party that is not finalized was refused with
\* OtherFinalsPending.
C26_Witness ==
    /\ ret = ReplyError("s3", "MergeRequest", ErrorOtherFinals)
    /\ ~(/\ FinalAt("s3", DescHash(PdB)).Signature.len > 0
         /\ Verify(FinalAt("s3", DescHash(PdB))))
    /\ \A k \in MergeSlots : mrg[k].pc = "idle"

\* ------------------------------------------------------------------------
\* Properties of CheckConfig and CheckConfigReply
\* ------------------------------------------------------------------------
\* C27: the CheckConfig handler replies WrongHash whenever its conode holds
\* no final statement under the hash of the message, also when the conode
\* holds no party at all; it never replies OK for a party it does not know.
C27_UnknownPartyIsWrongHash ==
    [][\A m \in Servers, c \in Servers :
        (/\ CheckConfig(m, c)
         /\ alive[c]
         /\ ~Has(Finals[m], Head(queue[<<c, m>>]).PopHash)) =>
            LET LastSent == queue'[<<m, c>>][Len(queue'[<<m, c>>])]
            IN  /\ LastSent.type = "CheckConfigReply"
                /\ LastSent.PopStatus = PopStatusWrongHash
    ]_vars

C29_SameHashAtSignStart ==
    [][\A root \in Servers :
        (~bft[root].active /\ bft'[root].active) =>
            LET RoundParty ==
                    DescHash(NewFinalStatementFromToml(bft'[root].Data[1]).Desc)
            IN  \A m \in Range(bft'[root].tree) :
                    /\ Has(Finals'[m], RoundParty)
                    /\ FinalHash(fsHeap'[m][Finals'[m][RoundParty]]) = bft'[root].Msg
    ]_vars

\* ------------------------------------------------------------------------
\* Properties of MergeConfig
\* ------------------------------------------------------------------------
\* C30: the MergeConfig handler records the statement of the message in
\* its mergeMeta and replies OK with its own statement attached only if it
\* holds a statement and a mergeMeta under the hash asked for,
\* VerifyMergeStatement gives OK and the party of the message is not yet
\* recorded; otherwise it replies WrongHash (hash not known), the status of
\* the failed verification, or MergeError (already recorded), attaches no
\* statement and leaves every mergeMeta as it is.
C30_MergeConfigReplies ==
    [][\A m \in Servers, c \in Servers :
        (MergeConfig(m, c) /\ alive[c]) =>
            LET mc == Head(queue[<<c, m>>])
                LastSent == queue'[<<m, c>>][Len(queue'[<<m, c>>])]
                HashKnown == Has(Finals[m], mc.ID) /\ Has(mergeMetas[m], mc.ID)
                Verdict == VerifyMergeStatement(FinalAt(m, mc.ID), mc.Final[1])
                Recorded(heap, metas, mm) ==
                    [h \in DOMAIN mm[metas[mc.ID]].statementsMap |->
                        heap[mm[metas[mc.ID]].statementsMap[h]]]
            IN  /\ LastSent.type = "MergeConfigReply"
                /\ LastSent.PopHash = DescHash(mc.Final[1].Desc)
                /\ IF /\ HashKnown
                      /\ Verdict = PopStatusOK
                      /\ ~Has(mmHeap[m][mergeMetas[m][mc.ID]].statementsMap,
                              DescHash(mc.Final[1].Desc))
                   THEN /\ LastSent.PopStatus = PopStatusOK
                        /\ LastSent.Final = <<FinalAt(m, mc.ID)>>
                        /\ Recorded(fsHeap'[m], mergeMetas'[m], mmHeap'[m]) =
                              Put(Recorded(fsHeap[m], mergeMetas[m], mmHeap[m]),
                                  DescHash(mc.Final[1].Desc), mc.Final[1])
                   ELSE /\ LastSent.PopStatus =
                              IF ~HashKnown THEN PopStatusWrongHash
                              ELSE IF Verdict < PopStatusOK THEN Verdict
                              ELSE PopStatusMergeError
                        /\ LastSent.Final = <<>>
                        /\ mmHeap'[m] = mmHeap[m]
    ]_vars

\* A conode has recorded the statement of the sibling party that a
\* MergeConfig brought, and its reply, OK with its own statement, is on the
\* way.
C30_Witness ==
    \E m \in Servers, c \in Servers : \E i \in DOMAIN queue[<<m, c>>] :
        /\ queue[<<m, c>>][i].type = "MergeConfigReply"
        /\ queue[<<m, c>>][i].PopStatus = PopStatusOK
        /\ queue[<<m, c>>][i].Final # <<>>
        /\ \E id \in DOMAIN mergeMetas[m] :
              /\ Has(mmHeap[m][mergeMetas[m][id]].statementsMap,
                     queue[<<m, c>>][i].PopHash)
              /\ queue[<<m, c>>][i].PopHash # id

\* ------------------------------------------------------------------------
\* Properties of VerifyMergeStatement
\* ------------------------------------------------------------------------
\* C31: VerifyMergeStatement(local, other) never gives OK when the roster
\* of other is set-equal to the roster of no sibling party listed in the
\* description of local: a MergeConfig that brings such a statement for a
\* party the conode holds is never answered with OK, and a MergeConfigReply
\* that brings one never puts a reply with status OK into mcChannel.
C31_ForeignRosterIsMergeError ==
    [][LET Foreign(local, other) ==
               \A i \in DOMAIN local.Desc.Parties :
                   Range(local.Desc.Parties[i].Roster.List) #
                       Range(other.Desc.Roster.List)
       IN
       /\ \A m \in Servers, c \in Servers :
             (/\ MergeConfig(m, c) /\ alive[c]
              /\ Has(Finals[m], Head(queue[<<c, m>>]).ID)
              /\ Has(mergeMetas[m], Head(queue[<<c, m>>]).ID)
              /\ Foreign(FinalAt(m, Head(queue[<<c, m>>]).ID),
                         Head(queue[<<c, m>>]).Final[1])) =>
                 queue'[<<m, c>>][Len(queue'[<<m, c>>])].PopStatus < PopStatusOK
       /\ \A s \in Servers, m \in Servers :
             (/\ MergeConfigReply(s, m)
              /\ Has(Finals[s], Head(queue[<<m, s>>]).PopHash)
              /\ Has(syncMetas[s], Head(queue[<<m, s>>]).PopHash)
              /\ Head(queue[<<m, s>>]).Final # <<>>
              /\ smHeap[s][syncMetas[s][Head(queue[<<m, s>>]).PopHash]].mcChannel = <<>>
              /\ Foreign(FinalAt(s, Head(queue[<<m, s>>]).PopHash),
                         Head(queue[<<m, s>>]).Final[1])) =>
                 smHeap'[s][syncMetas[s][Head(queue[<<m, s>>]).PopHash]]
                     .mcChannel[1].PopStatus < PopStatusOK
    ]_vars

\* C32: VerifyMergeStatement(local, other) gives OK only if the signature
\* of local verifies: a conode whose statement for the party is unsigned,
\* or signed over another content, never answers a MergeConfig or a
\* MergeCheck for that party with OK.
C32_UnfinalizedNeverAnswersOK ==
    [][\A m \in Servers, c \in Servers :
        /\ (/\ MergeConfig(m, c) /\ alive[c]
            /\ Has(Finals[m], Head(queue[<<c, m>>]).ID)
            /\ ~Verify(FinalAt(m, Head(queue[<<c, m>>]).ID))) =>
               queue'[<<m, c>>][Len(queue'[<<m, c>>])].PopStatus # PopStatusOK
        /\ (/\ MergeCheck(m, c) /\ alive[c]
            /\ Has(Finals[m], Head(queue[<<c, m>>]).IDrecv)
            /\ ~Verify(FinalAt(m, Head(queue[<<c, m>>]).IDrecv))) =>
               queue'[<<m, c>>][Len(queue'[<<m, c>>])].PopStatus # PopStatusOK
    ]_vars

\* ------------------------------------------------------------------------
\* Properties of MergeCheck and of the MergeCheck broadcast
\* ------------------------------------------------------------------------
\* C33: on a MergeCheck a conode replaces its statement for the party by
\* the union of it with the statements of the message, and names it by the
\* hash of the united description, only if it holds the party, the hash of
\* its own statement is the hash of a statement of the message and every
\* statement of the message passes VerifyMergeStatement; then it replies
\* OK.  Otherwise it replies with a status below OK and leaves its
\* statements, Finals, mergeMetas and syncMetas as they are.
C33_MergeCheckAllOrNothing ==
    [][\A m \in Servers, c \in Servers :
        (MergeCheck(m, c) /\ alive[c]) =>
            LET msg == Head(queue[<<c, m>>])
                LastSent == queue'[<<m, c>>][Len(queue'[<<m, c>>])]
                final == FinalAt(m, msg.IDrecv)
                Accepts ==
                    /\ Has(Finals[m], msg.IDrecv)
                    /\ Has(mergeMetas[m], msg.IDrecv)
                    /\ Has(syncMetas[m], msg.IDrecv)
                    /\ \E i \in DOMAIN msg.MergeInfo :
                          FinalHash(msg.MergeInfo[i]) = FinalHash(final)
                    /\ \A i \in DOMAIN msg.MergeInfo :
                          VerifyMergeStatement(final, msg.MergeInfo[i]) = PopStatusOK
                merged == United(final, final.Desc.Roster, msg.MergeInfo)
            IN  /\ LastSent.type = "MergeCheckReply"
                /\ LastSent.ID = msg.IDsndr
                /\ IF Accepts
                   THEN /\ LastSent.PopStatus = PopStatusOK
                        /\ Has(Finals'[m], DescHash(merged.Desc))
                        /\ Finals'[m][DescHash(merged.Desc)] = Finals[m][msg.IDrecv]
                        /\ fsHeap'[m][Finals[m][msg.IDrecv]] = merged
                        /\ mergeMetas'[m][DescHash(merged.Desc)] = mergeMetas[m][msg.IDrecv]
                        /\ syncMetas'[m][DescHash(merged.Desc)] = syncMetas[m][msg.IDrecv]
                   ELSE /\ LastSent.PopStatus < PopStatusOK
                        /\ UNCHANGED <<Finals, mergeMetas, syncMetas, fsHeap, mmHeap,
                                       storage>>
    ]_vars

\* A conode that had already united its statement refused a MergeCheck
\* (its statement is not among those of the message) with MergeError.
C33_Witness ==
    \E m \in Servers, c \in Servers : \E i \in DOMAIN queue[<<m, c>>] :
        /\ queue[<<m, c>>][i].type = "MergeCheckReply"
        /\ queue[<<m, c>>][i].PopStatus = PopStatusMergeError
        /\ \E h \in DOMAIN Finals[m] : FinalAt(m, h).Merged

\* C34: the coordinator of a merge goes on to unite the statements only
\* after every recipient of its MergeCheck has replied OK: a
\* MergeCheckReply with a status below OK is not counted as one of the
\* replies the coordinator waits for on mcGroup.
C34_RefusalIsNotCounted ==
    [][\A s \in Servers, m \in Servers :
        (/\ MergeCheckReply(s, m)
         /\ Head(queue[<<m, s>>]).PopStatus < PopStatusOK
         /\ Has(syncMetas[s], Head(queue[<<m, s>>]).ID)
         /\ alive'[s]) =>
            smHeap'[s][syncMetas[s][Head(queue[<<m, s>>]).ID]].mcGroup >=
                smHeap[s][syncMetas[s][Head(queue[<<m, s>>]).ID]].mcGroup
    ]_vars

\* ------------------------------------------------------------------------
\* Properties of the MergeConfig round
\* ------------------------------------------------------------------------
\* C35: the coordinator asks the conodes of a sibling party one at a time,
\* in the order of the sibling's roster: when it reads a reply, no other
\* MergeConfig of it and no other reply to it is on the way.  A reply with
\* a status below OK makes it send the MergeConfig to the next conode of
\* the same sibling; if that was the sibling's last conode the MergeRequest
\* fails with Merge and nothing is sent.  A reply with status OK makes it
\* record the statement of the reply under the sibling's hash and go on to
\* a later sibling (or to the MergeCheck broadcast).
C35_MergeConfigRound ==
    [][\A k \in MergeSlots :
        (MergeReply(k) /\ ~Head(smHeap[mrg[k].at][mrg[k].sync].mcChannel).nil) =>
            LET s == mrg[k].at
                mcr == Head(smHeap[s][mrg[k].sync].mcChannel)
                final == fsHeap[s][mrg[k].final]
                party == final.Desc.Parties[mrg[k].party]
                hash == PartyHash(final.Desc, party)
                next == party.Roster.List[mrg[k].si + 1]
                recorded == mmHeap'[s][mrg[k].meta].statementsMap
            IN  /\ \A x \in Servers :
                      /\ \A i \in DOMAIN queue[<<s, x>>] :
                            queue[<<s, x>>][i].type # "MergeConfig"
                      /\ \A i \in DOMAIN queue[<<x, s>>] :
                            queue[<<x, s>>][i].type # "MergeConfigReply"
                /\ IF mcr.PopStatus = PopStatusOK
                   THEN /\ Has(recorded, hash)
                        /\ fsHeap'[s][recorded[hash]] = mcr.Final[1]
                        /\ mrg'[k].pc = "mc" => mrg'[k].party > mrg[k].party
                   ELSE IF mrg[k].si < Len(party.Roster.List)
                   THEN alive[next] =>
                        /\ mrg'[k].pc = "mc"
                        /\ mrg'[k].party = mrg[k].party
                        /\ mrg'[k].si = mrg[k].si + 1
                        /\ queue' = [queue EXCEPT ![<<s, next>>] =
                                        Append(@, MergeConfigMsg(final, hash))]
                        /\ mmHeap' = mmHeap
                   ELSE /\ ret' = ReplyError(s, "MergeRequest", ErrorMerge)
                        /\ mrg'[k].pc = "idle"
                        /\ queue' = queue
    ]_vars

\* ------------------------------------------------------------------------
\* Properties of the propagation
\* ------------------------------------------------------------------------
\* C36: a propagated statement whose signature does not verify changes
\* nothing at the conode that gets it; one that verifies replaces the
\* statement the conode holds under the hash of its party and changes the
\* statement under no other hash; and a conode that holds no statement
\* under that hash ignores it and keeps running.
C36_PropagateFinalFrame ==
    [][\A m \in Servers : \A msg \in prop :
        PropagateFinal(m, msg) =>
            LET hash == DescHash(msg.fs.Desc)
            IN  IF ~Verify(msg.fs) \/ ~Has(Finals[m], hash)
                THEN /\ UNCHANGED <<serverData, alive, fin, bft, mrg>>
                ELSE /\ FinalAt(m, hash)' = msg.fs
                     /\ Finals'[m] = Finals[m]
                     /\ \A h \in DOMAIN Finals[m] \ {hash} :
                           FinalAt(m, h)' = FinalAt(m, h)
    ]_vars

\* ------------------------------------------------------------------------
\* Properties of the verification function of the collective signature
\* ------------------------------------------------------------------------
\* C37: a conode asked to verify in a signing round accepts if and only if
\* the hash of the statement carried in the data is the message to sign and
\* the conode holds, under the hash of that statement's party, a statement
\* whose hash is also the message; in every other case, also for a party
\* it does not know, it refuses and keeps running.
C37_VerifierAcceptsOrRefuses ==
    [][\A root \in Servers, m \in Servers :
        BftVerify(root, m) =>
            LET fs == NewFinalStatementFromToml(bft[root].Data[1])
                accepts ==
                    /\ FinalHash(fs) = bft[root].Msg
                    /\ Has(Finals[m], DescHash(fs.Desc))
                    /\ FinalHash(FinalAt(m, DescHash(fs.Desc))) = bft[root].Msg
            IN  /\ alive'[m]
                /\ bft'[root].votes[m] = IF accepts THEN "yes" ELSE "no"
    ]_vars

\* C38: for every statement a coordinator hands to the collective
\* signature, also one whose description lists exactly one sibling party,
\* decoding the TOML that ToToml made of it gives a statement with the hash
\* of the original, which is the message to sign.
C38_TomlKeepsHash ==
    [][\A root \in Servers :
        (~bft[root].active /\ bft'[root].active) =>
            FinalHash(NewFinalStatementFromToml(bft'[root].Data[1])) = bft'[root].Msg
    ]_vars

\* ------------------------------------------------------------------------
\* Properties of the delivery of replies
\* ------------------------------------------------------------------------
\* C39: delivering a MergeConfigReply (or a CheckConfigReply) to the
\* single-slot channel of a party never blocks the delivering handler: no
\* handler ever stands at its send while the slot is taken, also when two
\* replies for the same party are delivered at the same time.
C39_DeliveryNeverBlocks ==
    \A s \in Servers, m \in Servers :
        (/\ queue[<<m, s>>] # <<>>
         /\ Head(queue[<<m, s>>]).type = "mcChannel <- mcr") =>
            Len(smHeap[s][Head(queue[<<m, s>>]).syncData].mcChannel) = 0

\* ------------------------------------------------------------------------
\* Properties of a failed collective signature
\* ------------------------------------------------------------------------
\* C40: when a verifier of the roster rejects, so that the round does not
\* give a full 64-byte signature, FinalizeRequest and MergeRequest return an
\* error and propagate nothing; neither returns success with a statement
\* whose signature is empty.
C40_FailedSignatureIsAnError ==
    [][/\ \A root \in Servers :
            (SignatureDone(root) /\ RoundSignature(root).len < SignatureSize) =>
                /\ prop' = prop
                /\ ret' = ReplyError(root, "FinalizeRequest", ErrorInternal)
                /\ fin'[root].pc = "idle"
       /\ \A k \in MergeSlots :
            (MergeSignatureDone(k)
                /\ SignatureOf(mrg[k].round, mrg[k].at).len < SignatureSize) =>
                /\ prop' = prop
                /\ ret' = ReplyError(mrg[k].at, "MergeRequest", ErrorInternal)
                /\ mrg'[k].pc = "idle"
       /\ \A s \in Servers :
            FinalizeDone(s) => ret'.Final[1].Signature.len >= SignatureSize
       /\ \A k \in MergeSlots :
            MergeDone(k) => ret'.Final[1].Signature.len >= SignatureSize
    ]_vars
====
